---- MODULE Spec2Model ----
(***************************************************************************)
(* A model of the music-recorder: the AudioEngine (capture pipeline,       *)
(* playback graph, transport clock), the single-loop looper built on it    *)
(* (useLooper) and the key gesture recognizer that drives it (useGesture). *)
(*                                                                         *)
(* Time of the audio context is counted in ticks; one sample lasts         *)
(* TicksPerSample ticks, so a buffer of n samples has duration             *)
(* n * TicksPerSample and ceil(d * sampleRate) is Ceil(d, TicksPerSample). *)
(* An optional value (T | null) is a sequence of at most one element.      *)
(***************************************************************************)
EXTENDS Integers, Sequences, FiniteSets, TLC

\* ---------------------------------------------------------------- bounds
TicksPerSample == 2
\* samples handed to one capture callback (4096 in the source)
BufferSize == 2
\* number of chunks the model lets a recording hold
MaxChunks == 2
\* the audio clock stops advancing here
MaxClock == 2
\* largest loop duration passed to startRecording, largest seek target
MaxLoop == 2
MaxSeek == MaxClock
\* channels and samples per channel of a buffer that is serialized, and the
\* number of values a JavaScript number has for each step of a Float32
MaxChannels == 2
MaxBufLen == 2
NumbersPerFloat == 4
\* preview bins (800 in the source) and the assumed length of a free
\* recording in samples (60 s in the source)
PreviewBins == 2
FreeSamples == 2 * PreviewBins

\* ------------------------------------------------------------- helpers
Null == <<>>
Some(x) == <<x>>
IsNull(o) == o = <<>>
Val(o) == o[1]

Min(a, b) == IF a < b THEN a ELSE b
Max(a, b) == IF a > b THEN a ELSE b

\* JavaScript's %: the remainder takes the sign of the dividend
JsRem(a, b) == IF a >= 0 THEN a % b ELSE -((-a) % b)

\* Math.ceil(d * sampleRate) for a duration of d ticks
Ceil(d, n) == (d + n - 1) \div n

\* sample values of the input signal
Samples == {-1, 1}

\* AudioBuffer.duration of a buffer given as its sequence of samples
duration(buffer) == Len(buffer) * TicksPerSample

RECURSIVE SumLen(_)
SumLen(chunks) ==
    IF chunks = <<>> THEN 0 ELSE Len(Head(chunks)) + SumLen(Tail(chunks))

RECURSIVE Concat(_)
Concat(chunks) ==
    IF chunks = <<>> THEN <<>> ELSE Head(chunks) \o Concat(Tail(chunks))

RECURSIVE MaxOf(_)
MaxOf(s) == IF s = <<>> THEN 0 ELSE Max(Head(s), MaxOf(Tail(s)))

\* ------------------------------------------------------------ variables
VARIABLES
    engine,     \* the AudioEngine object
    lastCall,   \* outcome of the last engine entry point that ran
    looper,     \* the state and refs of useLooper
    gesture,    \* the stateRef of useGesture
    hist,       \* history: what the last gestures saw (read by the claims only)
    metro,      \* the engine's metronome and count-in, with the clock in ms
    tracksRef,  \* the tracks of useAudioEngine (tracksRef.current)
    hook,       \* the other state and refs of useAudioEngine
    tuner,      \* the state and refs of useTuner
    closest,    \* the last call of findClosestString
    codec       \* a buffer, its serialized form and the buffer made from it

\* ------------------------------------------------------- engine: fields
EngineInit(variant) ==
    [ variant               |-> variant,
      context               |-> FALSE,
      sourceNode            |-> FALSE,
      currentTime           |-> 0,
      scriptProcessor       |-> FALSE,
      processors            |-> <<>>,
      recordingChunks       |-> <<>>,
      recordingTotalSamples |-> 0,
      recordingPreview      |-> <<>>,
      isCurrentlyRecording  |-> FALSE,
      playbackSources       |-> <<>>,
      isCurrentlyPlaying    |-> FALSE,
      playStartTime         |-> 0,
      playStartOffset       |-> 0,
      loopDuration          |-> 0,
      animFrameId           |-> FALSE,
      onTimeUpdate          |-> "hook",
      lastPlayTracks        |-> <<>>,
      lastPlayLoop          |-> TRUE ]

\* the two source variants of the engine: per-track start offsets
\* (src/audio/AudioEngine.ts) or one shared tape (the other AudioEngine)
Variants == {"offsets", "tape"}

Track(buffer, muted, solo, startOffset) ==
    [ buffer |-> buffer, volume |-> 1, muted |-> muted, solo |-> solo,
      startOffset |-> startOffset ]

\* ------------------------------------------------------ engine: methods
selectDevice(e) == [e EXCEPT !.context = TRUE, !.sourceNode = TRUE]

stopTimeTracking(e) == [e EXCEPT !.animFrameId = FALSE]

startTimeTracking(e) == [e EXCEPT !.animFrameId = TRUE]

stopAllPlayback(e) ==
    stopTimeTracking([e EXCEPT !.isCurrentlyPlaying = FALSE,
                               !.playbackSources = <<>>])

getCurrentTime(e) ==
    IF ~e.context THEN 0
    ELSE IF ~e.isCurrentlyPlaying /\ ~e.isCurrentlyRecording
         THEN e.playStartOffset
    ELSE LET elapsed == e.currentTime - e.playStartTime + e.playStartOffset
         IN  IF e.loopDuration > 0 THEN JsRem(elapsed, e.loopDuration)
             ELSE elapsed

isRecording(e) == e.isCurrentlyRecording

isPlaying(e) == e.isCurrentlyPlaying

padBuffer(buffer, targetSamples) ==
    IF Len(buffer) >= targetSamples THEN buffer
    ELSE buffer \o [i \in 1..(targetSamples - Len(buffer)) |-> 0]

\* position in the buffer at which a source starts
bufferPos(e, loopDur, track, offset) ==
    LET d == duration(Val(track.buffer))
    IN  IF e.variant = "offsets"
        THEN JsRem(JsRem(offset - track.startOffset, d) + d, d)
        ELSE IF loopDur > 0 THEN JsRem(offset, loopDur)
             ELSE JsRem(offset, d)

sourceBuffer(e, loopDur, track) ==
    IF e.variant = "tape" /\ loopDur > 0
    THEN padBuffer(Val(track.buffer), Ceil(loopDur, TicksPerSample))
    ELSE Val(track.buffer)

HasBuffer(t) == ~IsNull(t.buffer)

\* tracks.filter(t => t.buffer)
RECURSIVE WithBuffer(_)
WithBuffer(tracks) ==
    IF tracks = <<>> THEN <<>>
    ELSE IF HasBuffer(Head(tracks))
         THEN <<Head(tracks)>> \o WithBuffer(Tail(tracks))
         ELSE WithBuffer(Tail(tracks))

RECURSIVE playSources(_, _, _, _, _, _)
playSources(e, loopDur, tracks, loop, offset, hasSolo) ==
    IF tracks = <<>> THEN <<>>
    ELSE LET track == Head(tracks)
             rest == playSources(e, loopDur, Tail(tracks), loop, offset, hasSolo)
             shouldPlay == IF hasSolo THEN track.solo ELSE ~track.muted
         IN  IF ~HasBuffer(track) THEN rest
             ELSE << [ buffer |-> sourceBuffer(e, loopDur, track),
                       loop |-> loop,
                       gain |-> IF shouldPlay THEN track.volume ELSE 0,
                       bufferPos |-> bufferPos(e, loopDur, track, offset) ] >>
                  \o rest

playAll(e, tracks, loop, offset) ==
    IF ~e.context THEN e
    ELSE LET e1 == stopAllPlayback(e)
             withBuffer == WithBuffer(tracks)
             maxDuration ==
                 MaxOf([i \in 1..Len(withBuffer) |->
                            duration(Val(withBuffer[i].buffer))])
             loopDur == IF e.variant = "tape" /\ maxDuration > 0
                        THEN maxDuration ELSE e1.loopDuration
             hasSolo == \E i \in 1..Len(tracks) : tracks[i].solo
         IN  startTimeTracking(
                 [e1 EXCEPT !.lastPlayTracks = tracks,
                            !.lastPlayLoop = loop,
                            !.loopDuration = loopDur,
                            !.isCurrentlyPlaying = TRUE,
                            !.playStartOffset = offset,
                            !.playStartTime = e.currentTime,
                            !.playbackSources =
                                playSources(e, loopDur, tracks, loop, offset,
                                            hasSolo)])

\* setTargetAtTime(volume, now, 0.01): the gain leaves its value for volume
setTrackVolume(e, index, volume) ==
    IF index + 1 \in 1..Len(e.playbackSources)
    THEN [e EXCEPT !.playbackSources[index + 1].gain = volume]
    ELSE e

clampSeek_NoUpper(e, time) == Max(0, time)

clampSeek(e, time) ==
    IF e.loopDuration > 0 THEN Max(0, Min(time, e.loopDuration))
    ELSE Max(0, time)

\* seekTo: the engine after the call, and the value returned
seekTo(e, time) ==
    IF ~e.context THEN [e |-> e, ret |-> 0]
    ELSE LET clampedTime == clampSeek(e, time)
         IN  IF e.isCurrentlyPlaying /\ Len(e.lastPlayTracks) > 0
             THEN [e |-> playAll(e, e.lastPlayTracks, e.lastPlayLoop, clampedTime),
                   ret |-> clampedTime]
             ELSE [e |-> [e EXCEPT !.playStartOffset = clampedTime,
                                   !.playStartTime = e.currentTime],
                   ret |-> clampedTime]

RECURSIVE monitorSources(_, _, _)
monitorSources(e, buffers, playOffset) ==
    IF buffers = <<>> THEN <<>>
    ELSE LET track == Head(buffers)
             rest == monitorSources(e, Tail(buffers), playOffset)
         IN  IF ~HasBuffer(track) \/ track.muted THEN rest
             ELSE << [ buffer |-> sourceBuffer(e, e.loopDuration, track),
                       loop |-> TRUE,
                       gain |-> track.volume,
                       bufferPos |-> bufferPos(e, e.loopDuration, track,
                                               playOffset) ] >>
                  \o rest

startMonitorPlayback(e, buffers, playOffset) ==
    IF ~e.context THEN e
    ELSE [e EXCEPT !.playbackSources =
                       e.playbackSources \o monitorSources(e, buffers, playOffset)]

\* ---------------------------------------------------- engine: capture
\* The preview bin of index i (0-based) after scanning chunk[from..to-1]
scanBin(bin, chunk, from, to) ==
    LET vals == {chunk[i + 1] : i \in from..(to - 1)}
        lo == CHOOSE v \in vals : \A w \in vals : v <= w
        hi == CHOOSE v \in vals : \A w \in vals : v >= w
    IN  [min |-> Min(bin.min, lo), max |-> Max(bin.max, hi)]

RECURSIVE growPreview(_, _)
growPreview(preview, binIndex) ==
    IF Len(preview) <= binIndex
    THEN growPreview(Append(preview, [min |-> 0, max |-> 0]), binIndex)
    ELSE preview

\* the while loop of updatePreview from posInChunk on; threw: reading
\* bin.min of an undefined bin raised a TypeError
RECURSIVE previewLoop(_, _, _, _, _)
previewLoop(preview, totalBeforeChunk, chunk, samplesPerBin, posInChunk) ==
    IF posInChunk >= Len(chunk) THEN [preview |-> preview, threw |-> FALSE]
    ELSE LET globalSample == totalBeforeChunk + posInChunk
             binIndex == globalSample \div samplesPerBin
             grown == growPreview(preview, binIndex)
             nextBinStart == (binIndex + 1) * samplesPerBin
             samplesUntilNextBin == nextBinStart - globalSample
             samplesAvailable == Len(chunk) - posInChunk
             count == Min(samplesUntilNextBin, samplesAvailable)
             end == posInChunk + count
         IN  IF binIndex < 0
             THEN [preview |-> grown, threw |-> TRUE]
             ELSE previewLoop(
                      [grown EXCEPT ![binIndex + 1] =
                           scanBin(grown[binIndex + 1], chunk, posInChunk, end)],
                      totalBeforeChunk, chunk, samplesPerBin, end)

updatePreview(e, chunk, samplesPerBin) ==
    previewLoop(e.recordingPreview, e.recordingTotalSamples - Len(chunk),
                chunk, samplesPerBin, 0)

\* the ScriptProcessorNode startRecording creates, with the constants its
\* callback closes over
newProcessor(loopDuration) ==
    LET capped == loopDuration > 0
        maxSamples == IF capped THEN Ceil(loopDuration, TicksPerSample) ELSE 0
        expectedSamples == IF capped THEN maxSamples ELSE FreeSamples
    IN  [ capped |-> capped, maxSamples |-> maxSamples,
          samplesPerBin |-> Max(1, expectedSamples \div PreviewBins) ]

\* captureChunk that counts the samples before it updates the preview
captureChunk_CountFirst(e, chunk, samplesPerBin) ==
    LET pushed == [e EXCEPT !.recordingChunks = Append(e.recordingChunks, chunk),
                            !.recordingTotalSamples = @ + Len(chunk)]
        up == updatePreview(pushed, chunk, samplesPerBin)
    IN  [e |-> [pushed EXCEPT !.recordingPreview = up.preview],
         threw |-> up.threw]

\* push the chunk, update the preview, count the samples; an exception in
\* updatePreview leaves the chunk pushed and skips the rest of the callback
captureChunk(e, chunk, samplesPerBin) ==
    LET pushed == [e EXCEPT !.recordingChunks = Append(e.recordingChunks, chunk)]
        up == updatePreview(pushed, chunk, samplesPerBin)
        previewed == [pushed EXCEPT !.recordingPreview = up.preview]
    IN  IF up.threw THEN [e |-> previewed, threw |-> TRUE]
        ELSE [e |-> [previewed EXCEPT !.recordingTotalSamples = @ + Len(chunk)],
              threw |-> FALSE]

\* scriptProcessor.onaudioprocess of processor p
onaudioprocess(e, p, chunk) ==
    IF ~e.isCurrentlyRecording THEN [e |-> e, threw |-> FALSE]
    ELSE IF p.capped /\ e.recordingTotalSamples + Len(chunk) >= p.maxSamples
    THEN LET remaining == p.maxSamples - e.recordingTotalSamples
             c == IF remaining > 0
                  THEN captureChunk(e, SubSeq(chunk, 1, Min(remaining, Len(chunk))),
                                    p.samplesPerBin)
                  ELSE [e |-> e, threw |-> FALSE]
         IN  IF c.threw THEN c
             ELSE [e |-> [c.e EXCEPT !.isCurrentlyRecording = FALSE],
                   threw |-> FALSE]
    ELSE captureChunk(e, chunk, p.samplesPerBin)

\* the part of startRecording after its two guards
beginCapture(e, monitorBuffers, loopDuration, playOffset) ==
         LET e1 == [e EXCEPT !.isCurrentlyRecording = TRUE,
                             !.recordingChunks = <<>>,
                             !.recordingTotalSamples = 0,
                             !.recordingPreview = <<>>,
                             !.loopDuration = loopDuration,
                             !.scriptProcessor = TRUE,
                             !.processors = Append(@, newProcessor(loopDuration))]
             e2 == IF Len(monitorBuffers) > 0
                   THEN startMonitorPlayback(e1, monitorBuffers, playOffset)
                   ELSE e1
         IN  [e |-> startTimeTracking(
                        [e2 EXCEPT !.playStartOffset = playOffset,
                                   !.playStartTime = e.currentTime]),
              outcome |-> "ok"]

\* startRecording without its already-recording guard
startRecording_Unguarded(e, monitorBuffers, loopDuration, playOffset) ==
    IF ~e.context \/ ~e.sourceNode THEN [e |-> e, outcome |-> "throw"]
    ELSE beginCapture(e, monitorBuffers, loopDuration, playOffset)

\* startRecording(monitorBuffers, loopDuration, playOffset); a loopDuration
\* of 0 stands for undefined as well
startRecording(e, monitorBuffers, loopDuration, playOffset) ==
    IF ~e.context \/ ~e.sourceNode THEN [e |-> e, outcome |-> "throw"]
    ELSE IF e.isCurrentlyRecording THEN [e |-> e, outcome |-> "noop"]
    ELSE beginCapture(e, monitorBuffers, loopDuration, playOffset)

\* stopRecording: the engine after the call and the buffer returned (or null)
stopRecording(e) ==
    IF ~e.context THEN [e |-> e, ret |-> Null]
    ELSE LET e1 == [e EXCEPT !.isCurrentlyRecording = FALSE,
                             !.scriptProcessor = FALSE,
                             !.processors =
                                 IF e.scriptProcessor
                                 THEN SubSeq(@, 1, Len(@) - 1) ELSE @]
             e2 == stopAllPlayback(e1)
         IN  IF Len(e2.recordingChunks) = 0 THEN [e |-> e2, ret |-> Null]
             ELSE [e |-> [e2 EXCEPT !.recordingChunks = <<>>],
                   ret |-> Some(Concat(e2.recordingChunks))]

\* --------------------------------------------------------- the looper
\* engine.mixBuffers(a, b): the equal-weight additive mix, sample by sample,
\* a missing sample counting as silence
mixBuffers(a, b) ==
    [i \in 1..Max(Len(a), Len(b)) |->
        (IF i <= Len(a) THEN a[i] ELSE 0) + (IF i <= Len(b) THEN b[i] ELSE 0)]

LooperStates == {"empty", "recording", "playing", "overdubbing", "stopped"}

Gestures == {"tap", "double-tap", "hold", "double-tap-hold"}

LooperInit ==
    [ enabled         |-> FALSE,
      state           |-> "empty",
      layerCount      |-> 0,
      loopDuration    |-> 0,
      currentTime     |-> 0,
      canUndo         |-> FALSE,
      undoIsRedo      |-> FALSE,
      compositeRef    |-> Null,
      undoBufferRef   |-> Null,
      loopDurationRef |-> 0,
      autoStopRef     |-> FALSE,
      polls           |-> 0 ]

\* the one-track list the looper plays and monitors
LoopTrack(buffer) == << Track(Some(buffer), FALSE, FALSE, 0) >>

\* The handlers below take and return the pair of the looper's state (l)
\* and the engine (e).
\* clearAutoStop that forgets the interval it was holding
clearAutoStop_KeepsInterval(s) ==
    IF s.l.autoStopRef
    THEN [s EXCEPT !.l.autoStopRef = FALSE]
    ELSE s

clearAutoStop(s) ==
    IF s.l.autoStopRef
    THEN [s EXCEPT !.l.autoStopRef = FALSE, !.l.polls = @ - 1]
    ELSE s

startPlayback(s) ==
    IF IsNull(s.l.compositeRef) THEN s
    ELSE [s EXCEPT !.e = playAll(stopAllPlayback(s.e),
                                 LoopTrack(Val(s.l.compositeRef)), TRUE, 0)]

\* handleRecordingFirstComplete that does not start the loop
handleRecordingFirstComplete_NoPlay(s) ==
    LET s1 == clearAutoStop(s)
        r == stopRecording(s1.e)
    IN  IF IsNull(r.ret) \/ Len(Val(r.ret)) = 0
        THEN [s1 EXCEPT !.e = r.e, !.l.state = "empty"]
        ELSE [s1 EXCEPT !.l.compositeRef = r.ret,
                        !.l.loopDurationRef = duration(Val(r.ret)),
                        !.l.loopDuration = duration(Val(r.ret)),
                        !.l.layerCount = 1,
                        !.l.state = "playing",
                        !.e = r.e]

handleRecordingFirstComplete(s) ==
    LET s1 == clearAutoStop(s)
        r == stopRecording(s1.e)
    IN  IF IsNull(r.ret) \/ Len(Val(r.ret)) = 0
        THEN [s1 EXCEPT !.e = r.e, !.l.state = "empty"]
        ELSE [s1 EXCEPT !.l.compositeRef = r.ret,
                        !.l.loopDurationRef = duration(Val(r.ret)),
                        !.l.loopDuration = duration(Val(r.ret)),
                        !.l.layerCount = 1,
                        !.l.state = "playing",
                        !.e = playAll(r.e, LoopTrack(Val(r.ret)), TRUE, 0)]

\* handleOverdubComplete that forgets to save the composite for undo
handleOverdubComplete_NoUndoSave(s) ==
    LET s1 == clearAutoStop(s)
        r == stopRecording(s1.e)
    IN  IF IsNull(r.ret) \/ IsNull(s1.l.compositeRef)
        THEN startPlayback([s1 EXCEPT !.e = r.e, !.l.state = "playing"])
        ELSE startPlayback(
                 [s1 EXCEPT !.e = r.e,
                            !.l.canUndo = TRUE,
                            !.l.undoIsRedo = FALSE,
                            !.l.compositeRef =
                                Some(mixBuffers(Val(s1.l.compositeRef), Val(r.ret))),
                            !.l.layerCount = @ + 1,
                            !.l.state = "playing"])

handleOverdubComplete(s) ==
    LET s1 == clearAutoStop(s)
        r == stopRecording(s1.e)
    IN  IF IsNull(r.ret) \/ IsNull(s1.l.compositeRef)
        THEN startPlayback([s1 EXCEPT !.e = r.e, !.l.state = "playing"])
        ELSE startPlayback(
                 [s1 EXCEPT !.e = r.e,
                            !.l.undoBufferRef = s1.l.compositeRef,
                            !.l.canUndo = TRUE,
                            !.l.undoIsRedo = FALSE,
                            !.l.compositeRef =
                                Some(mixBuffers(Val(s1.l.compositeRef), Val(r.ret))),
                            !.l.layerCount = @ + 1,
                            !.l.state = "playing"])

\* an exception of engine.startRecording ends the handler where it is
startOverdub(s) ==
    IF IsNull(s.l.compositeRef) THEN s
    ELSE LET pos == getCurrentTime(s.e)
             r == startRecording(stopAllPlayback(s.e),
                                 LoopTrack(Val(s.l.compositeRef)),
                                 s.l.loopDurationRef, pos)
         IN  IF r.outcome = "throw" THEN [s EXCEPT !.e = r.e]
             ELSE [s EXCEPT !.e = r.e,
                            !.l.state = "overdubbing",
                            !.l.autoStopRef = TRUE,
                            !.l.polls = @ + 1]

\* deleteLoop that does not force-stop an active capture
deleteLoop_NoStop(s) ==
    LET s1 == clearAutoStop(s)
    IN  [s1 EXCEPT !.e = stopAllPlayback(s1.e),
                   !.l.compositeRef = Null,
                   !.l.undoBufferRef = Null,
                   !.l.layerCount = 0,
                   !.l.loopDuration = 0,
                   !.l.currentTime = 0,
                   !.l.canUndo = FALSE,
                   !.l.undoIsRedo = FALSE,
                   !.l.state = "empty"]

\* the full reset of the double-tap-hold gesture
deleteLoop(s) ==
    LET s1 == clearAutoStop(s)
        e1 == IF isRecording(s1.e) THEN stopRecording(s1.e).e ELSE s1.e
    IN  [s1 EXCEPT !.e = stopAllPlayback(e1),
                   !.l.compositeRef = Null,
                   !.l.undoBufferRef = Null,
                   !.l.layerCount = 0,
                   !.l.loopDuration = 0,
                   !.l.currentTime = 0,
                   !.l.canUndo = FALSE,
                   !.l.undoIsRedo = FALSE,
                   !.l.state = "empty"]

\* the hold branch without the swap of the two buffers
undoRedo_NoSwap(s) ==
    IF s.l.canUndo /\ ~IsNull(s.l.undoBufferRef)
    THEN startPlayback([s EXCEPT !.l.compositeRef = s.l.undoBufferRef,
                                 !.l.undoIsRedo = ~@])
    ELSE s

\* the hold gesture in state playing
undoRedo(s) ==
    IF s.l.canUndo /\ ~IsNull(s.l.undoBufferRef)
    THEN startPlayback([s EXCEPT !.l.compositeRef = s.l.undoBufferRef,
                                 !.l.undoBufferRef = s.l.compositeRef,
                                 !.l.undoIsRedo = ~@])
    ELSE s

handleTap(s) ==
    CASE s.l.state = "empty" ->
             LET r == startRecording(s.e, <<>>, 0, 0)
             IN  IF r.outcome = "throw" THEN s
                 ELSE [s EXCEPT !.e = r.e, !.l.state = "recording"]
      [] s.l.state = "recording" -> handleRecordingFirstComplete(s)
      [] s.l.state = "playing" -> startOverdub(s)
      [] s.l.state = "overdubbing" -> handleOverdubComplete(s)
      [] s.l.state = "stopped" -> [startPlayback(s) EXCEPT !.l.state = "playing"]

\* the double-tap branch without its test of the state
handleDoubleTap_AnyState(s) ==
    LET s1 == clearAutoStop(s)
        e1 == IF isRecording(s1.e) THEN stopRecording(s1.e).e ELSE s1.e
    IN  [s1 EXCEPT !.e = stopAllPlayback(e1), !.l.state = "stopped"]

handleDoubleTap(s) ==
    IF s.l.state \in {"playing", "overdubbing"}
    THEN LET s1 == clearAutoStop(s)
             e1 == IF isRecording(s1.e) THEN stopRecording(s1.e).e ELSE s1.e
         IN  [s1 EXCEPT !.e = stopAllPlayback(e1), !.l.state = "stopped"]
    ELSE s

handleGesture(s, g) ==
    CASE g = "tap" -> handleTap(s)
      [] g = "hold" -> IF s.l.state = "playing" THEN undoRedo(s) ELSE s
      [] g = "double-tap" -> handleDoubleTap(s)
      [] g = "double-tap-hold" -> deleteLoop(s)

\* the effect that runs when the looper is disabled
resetOnDisable(s) ==
    LET s1 == clearAutoStop(s)
        e1 == IF isRecording(s1.e) THEN stopRecording(s1.e).e ELSE s1.e
        e2 == IF isPlaying(e1) THEN stopAllPlayback(e1) ELSE e1
    IN  [s1 EXCEPT !.e = e2,
                   !.l.enabled = FALSE,
                   !.l.compositeRef = Null,
                   !.l.undoBufferRef = Null,
                   !.l.state = "empty",
                   !.l.layerCount = 0,
                   !.l.loopDuration = 0,
                   !.l.currentTime = 0,
                   !.l.canUndo = FALSE,
                   !.l.undoIsRedo = FALSE]

\* ------------------------------------------------- engine: entry points
Call(op, outcome, buf, num) ==
    [op |-> op, outcome |-> outcome, buf |-> buf, num |-> num]

\* lastCall after a step whose result nothing observes
NoCall == Call("none", "ok", Null, 0)

\* inputs of the engine's entry points
BufA == <<1, -1>>
BufB == <<-1>>

TrackLists ==
    { <<>>,
      << Track(Some(BufA), FALSE, FALSE, 0) >>,
      << Track(Null, FALSE, FALSE, 0), Track(Some(BufA), TRUE, FALSE, 0),
         Track(Some(BufB), FALSE, TRUE, 1) >> }

MonitorLists ==
    { <<>>, << Track(Some(BufA), FALSE, FALSE, 0) >> }

\* the chunks the input delivers: BufferSize samples of one level
Chunks ==
    { [i \in 1..BufferSize |-> v] : v \in Samples }

\* the chunks delivered while the looper runs
LoopChunks ==
    { [i \in 1..BufferSize |-> 1] }

\* seek targets: before the start, inside and past the end of the tape
SeekTimes == -1..MaxSeek

\* offsets the callers pass: the loop start or the current play-head
CallerOffsets(e) == {0, getCurrentTime(e)} \cap 0..MaxSeek

\* ------------------------------------------------ the gesture recognizer
\* The recognizer reads the clock only as differences (Date.now() - downTime,
\* setTimeout delays), so the model keeps the differences: heldFor is
\* Date.now() - downTime while the key is down (counted up to HOLD_DURATION,
\* where the comparison that reads it is decided), a pending timer is the
\* time left until it is due.
DOUBLE_TAP_WINDOW == 300
HOLD_DURATION == 1500
\* overdubs the model lets the looper bounce
MaxLayers == 2

GestureInit ==
    [ isDown       |-> FALSE,
      heldFor      |-> 0,
      hadRecentTap |-> FALSE,
      tapTimer     |-> Null,
      holdTimer    |-> Null ]

clearTimers(g) == [g EXCEPT !.tapTimer = Null, !.holdTimer = Null]

\* the branch of the effect taken when the recognizer is disabled
disableGesture(g) ==
    [clearTimers(g) EXCEPT !.hadRecentTap = FALSE, !.isDown = FALSE]

\* handleGesture ends with an exception: engine.startRecording threw
handlerThrows(s, g) ==
    /\ g = "tap"
    /\ \/ s.l.state = "empty"
       \/ s.l.state = "playing" /\ ~IsNull(s.l.compositeRef)
    /\ (~s.e.context \/ ~s.e.sourceNode)

\* what handleKeyDown emits
keyDownGesture(g) == IF g.hadRecentTap THEN "double-tap" ELSE "tap"

\* handleKeyDown; threw: the gesture handler raised, so the statements
\* after the emission (arming the hold timer) did not run
handleKeyDown(g, threw) ==
    IF g.isDown THEN g
    ELSE LET g1 == [g EXCEPT !.isDown = TRUE, !.heldFor = 0]
         IN  IF g.hadRecentTap
             THEN [g1 EXCEPT !.tapTimer = Null,
                             !.hadRecentTap = FALSE,
                             !.holdTimer =
                                 IF threw THEN @
                                 ELSE Some([in |-> HOLD_DURATION,
                                            emit |-> "double-tap-hold"])]
             ELSE [g1 EXCEPT !.holdTimer =
                                 IF threw THEN @
                                 ELSE Some([in |-> HOLD_DURATION,
                                            emit |-> "hold"])]

\* handleKeyUp that leaves the hold timer pending
handleKeyUp_KeepHoldTimer(g) ==
    IF ~g.isDown THEN g
    ELSE LET g1 == [g EXCEPT !.isDown = FALSE]
         IN  IF g.heldFor >= HOLD_DURATION
             THEN [g1 EXCEPT !.hadRecentTap = FALSE]
             ELSE [g1 EXCEPT !.hadRecentTap = TRUE,
                             !.tapTimer = Some(DOUBLE_TAP_WINDOW)]

handleKeyUp(g) ==
    IF ~g.isDown THEN g
    ELSE LET g1 == [g EXCEPT !.isDown = FALSE, !.holdTimer = Null]
         IN  IF g.heldFor >= HOLD_DURATION
             THEN [g1 EXCEPT !.hadRecentTap = FALSE]
             ELSE [g1 EXCEPT !.hadRecentTap = TRUE,
                             !.tapTimer = Some(DOUBLE_TAP_WINDOW)]

\* d ms pass
elapse(g, d) ==
    [g EXCEPT !.heldFor = IF g.isDown THEN Min(@ + d, HOLD_DURATION) ELSE @,
              !.tapTimer = IF IsNull(@) THEN @ ELSE Some(Val(@) - d),
              !.holdTimer = IF IsNull(@) THEN @
                            ELSE Some([Val(@) EXCEPT !.in = @ - d])]

\* ------------------------------------------------------------- history
Snap(l) ==
    [ state |-> l.state, canUndo |-> l.canUndo, composite |-> l.compositeRef,
      undo |-> l.undoBufferRef, undoIsRedo |-> l.undoIsRedo ]

\* holdRun, holdPre: the length of the run of holds that acted, and what
\* the looper held before the run; pressPre, pressEmit: what the looper held
\* at the last key press and what the press emitted; deletedFrom: the
\* state in which the delete or disable that ran last found the looper;
\* holdEmit: what the hold timer of the press in progress emitted; relEmit:
\* what the press emitted whose release opened the pending double-tap window;
\* cause: what ran the looper's handlers last (a gesture, the auto-stop poll,
\* the mode switch)
HistInit ==
    [ holdRun |-> 0, holdPre |-> Snap(LooperInit),
      pressPre |-> Snap(LooperInit), pressEmit |-> "none",
      deletedFrom |-> "none", holdEmit |-> "none", relEmit |-> "none",
      cause |-> "none" ]

\* history once no press is in progress and no window is pending
histNoPress(h) ==
    [h EXCEPT !.pressPre = Snap(LooperInit), !.pressEmit = "none",
              !.holdEmit = "none", !.relEmit = "none"]

\* the hold gesture acts on l: it swaps the two buffers
HoldActs(l) == l.state = "playing" /\ l.canUndo /\ ~IsNull(l.undoBufferRef)

\* history after the gesture g was delivered to the looper l
histGesture(h, l, g) ==
    IF g = "hold" /\ HoldActs(l)
    THEN IF h.holdRun = 1
         THEN [h EXCEPT !.holdRun = 2, !.deletedFrom = "none",
                        !.cause = "gesture"]
         ELSE [h EXCEPT !.holdRun = 1, !.holdPre = Snap(l),
                        !.deletedFrom = "none", !.cause = "gesture"]
    ELSE [h EXCEPT !.holdRun = 0, !.holdPre = Snap(LooperInit),
                   !.deletedFrom =
                       IF g = "double-tap-hold" THEN l.state ELSE "none",
                   !.cause = "gesture"]

histReset(h) ==
    [h EXCEPT !.holdRun = 0, !.holdPre = Snap(LooperInit),
              !.deletedFrom = "none"]

\* ------------------------------------------------ metronome and count-in
\* Times are in ms. metro.now is both the audio clock (context.currentTime)
\* and the clock of setInterval; it advances in steps of checkInterval. A
\* pending interval is the time left until its callback is due (0 or less:
\* due), for the count-in together with what its callback closes over.
scheduleAhead == 100
checkInterval == 25
\* steps of the clock by which a due callback may run late
MaxLate == 1
\* length of a metronome run
RunMs == 10000
\* the start and setter calls come within this time
MaxCallTime == 50
\* startCountIn calls
MaxCountIns == 2
\* startMetronome calls that start a run
MaxStarts == 1

\* clicks: the scheduleClick calls so far, each with the onBeat call made
\* with it; done: the onDone calls; startedAt, starts, countIns, cancelled:
\* the time of the last startMetronome, the number of metronome runs and of
\* startCountIn calls, and the count-ins cancelled before they completed
\* (read by the claims and the bounds only)
MetroInit ==
    [ now                   |-> 0,
      metronomeBpm          |-> 120,
      metronomeBeatsPerBar  |-> 4,
      metronomeEnabled      |-> FALSE,
      metronomeIntervalId   |-> Null,
      metronomeNextBeatTime |-> 0,
      metronomeBeatIndex    |-> 0,
      metronomeAudible      |-> TRUE,
      countInIntervalId     |-> Null,
      clicks                |-> <<>>,
      done                  |-> <<>>,
      startedAt             |-> 0,
      starts                |-> 0,
      countIns              |-> 0,
      cancelled             |-> {} ]

\* 60 / metronomeBpm seconds
msPerBeat(m) == 60000 \div m.metronomeBpm

setBpm(m, bpm) == [m EXCEPT !.metronomeBpm = Max(30, Min(300, bpm))]

setBeatsPerBar(m, beats) == [m EXCEPT !.metronomeBeatsPerBar = beats]

\* only the shared-tape engine has the audible toggle
setMetronomeAudible(m, e, audible) ==
    IF e.variant = "tape" THEN [m EXCEPT !.metronomeAudible = audible] ELSE m

\* scheduleClick that does not look at forceAudible
clickSounds_NoForce(m, e, forceAudible) ==
    e.context /\ (e.variant = "offsets" \/ m.metronomeAudible)

\* scheduleClick(time, isDownbeat, forceAudible) creates an oscillator
clickSounds(m, e, forceAudible) ==
    e.context /\ (e.variant = "offsets" \/ m.metronomeAudible \/ forceAudible)

\* scheduleClick followed by onBeat(beat, beatDown); src, run and k tell which
\* beat of which run of the metronome or the count-in it is
beatEvent(m, e, src, run, k, time, isDownbeat, forceAudible, beat, beatDown) ==
    [m EXCEPT !.clicks =
        Append(@, [ src |-> src, run |-> run, k |-> k,
                    time |-> time,
                    isDownbeat |-> isDownbeat,
                    sounds |-> clickSounds(m, e, forceAudible),
                    beat |-> beat, beatDown |-> beatDown ])]

\* the while loop of the scheduler callback
RECURSIVE scheduleBeats(_, _)
scheduleBeats(m, e) ==
    IF m.metronomeNextBeatTime < m.now + scheduleAhead
    THEN LET beat == m.metronomeBeatIndex % m.metronomeBeatsPerBar
             m1 == beatEvent(m, e, "metronome", m.startedAt,
                             m.metronomeBeatIndex, m.metronomeNextBeatTime,
                             beat = 0, FALSE, beat, beat = 0)
         IN  scheduleBeats(
                 [m1 EXCEPT !.metronomeBeatIndex = @ + 1,
                            !.metronomeNextBeatTime = @ + msPerBeat(m)], e)
    ELSE m

\* startMetronome that keeps the beat index and the next beat time it finds
startMetronome_NoReset(m, e) ==
    IF ~e.context \/ m.metronomeEnabled THEN m
    ELSE [m EXCEPT !.metronomeEnabled = TRUE,
                   !.metronomeIntervalId = Some(checkInterval),
                   !.startedAt = m.now,
                   !.starts = @ + 1]

startMetronome(m, e) ==
    IF ~e.context \/ m.metronomeEnabled THEN m
    ELSE [m EXCEPT !.metronomeEnabled = TRUE,
                   !.metronomeBeatIndex = 0,
                   !.metronomeNextBeatTime = m.now,
                   !.metronomeIntervalId = Some(checkInterval),
                   !.startedAt = m.now,
                   !.starts = @ + 1]

\* the callback of the scheduler's setInterval
metronomeCallback(m, e) ==
    IF ~e.context \/ ~m.metronomeEnabled THEN m ELSE scheduleBeats(m, e)

stopMetronome(m) ==
    [m EXCEPT !.metronomeEnabled = FALSE, !.metronomeIntervalId = Null]

stopCountIn(m) == [m EXCEPT !.countInIntervalId = Null]

\* onDone()
callDone(m, run, totalBeats) ==
    [m EXCEPT !.done = Append(@, [run |-> run, at |-> m.now,
                                  totalBeats |-> totalBeats])]

\* startCountIn(onDone), the run-th call of it
startCountIn(m, e, run) ==
    IF ~e.context THEN callDone(m, run, 0)
    ELSE LET m1 == beatEvent(stopCountIn(m), e, "count-in", run, 0, m.now,
                             TRUE, TRUE, 0, TRUE)
         IN  [m1 EXCEPT !.countInIntervalId =
                            Some([ left |-> msPerBeat(m),
                                   period |-> msPerBeat(m),
                                   beatIndex |-> 1,
                                   totalBeats |-> m.metronomeBeatsPerBar,
                                   run |-> run ])]

\* the callback of the count-in's setInterval, c what it closes over
countInCallback(m, e, c) ==
    IF c.beatIndex >= c.totalBeats
    THEN callDone(stopCountIn(m), c.run, c.totalBeats)
    ELSE LET m1 == IF e.context
                   THEN beatEvent(m, e, "count-in", c.run, c.beatIndex, m.now,
                                  c.beatIndex = 0, TRUE, c.beatIndex,
                                  c.beatIndex = 0)
                   ELSE m
         IN  [m1 EXCEPT !.countInIntervalId =
                            Some([c EXCEPT !.beatIndex = @ + 1,
                                           !.left = @ + c.period])]

\* the clicks that will sound after now
PendingClicks(m) ==
    {i \in 1..Len(m.clicks) : m.clicks[i].sounds /\ m.clicks[i].time > m.now}

\* ------------------------------------------------------------ the tuner
\* frames a new note must be detected for before the display switches
NOTE_HOLD_FRAMES == 4

\* the no-detection frames after which the display is cleared
NoDetectionLimit == 15

\* frames without a detection in a row the model follows
MaxQuiet == 17

Note(noteName, octave) == [noteName |-> noteName, octave |-> octave]

TunerNotes == {Note("A", 4), Note("A#", 4), Note("B", 4)}

TunerCents == {0, 10}

\* the NoteInfo of a frame with a pitch (frequencyToNote's result)
Infos == {[note |-> n, centsOff |-> c] : n \in TunerNotes, c \in TunerCents}

\* what a frame brings: silence, no clear pitch, or a pitch
Frames ==
    {[kind |-> "silent", info |-> Null], [kind |-> "nopitch", info |-> Null]}
    \cup {[kind |-> "pitch", info |-> Some(i)] : i \in Infos}

\* rawFrequency holds the NoteInfo of the frame it came from; run, quiet and
\* shown are history: the note of the last frames with a pitch and how many
\* of them in a row detected it, the frames without a detection in a row,
\* and what was displayed when they began
TunerInit ==
    [ noteInfo            |-> Null,
      rawFrequency        |-> Null,
      smoothedCents       |-> 0,
      isDetecting         |-> FALSE,
      smoothedCentsRef    |-> 0,
      noDetectionCountRef |-> 0,
      currentNoteRef      |-> Null,
      candidateNoteRef    |-> Null,
      candidateCountRef   |-> 0,
      candidateInfoRef    |-> Null,
      run                 |-> [note |-> Null, len |-> 0],
      quiet               |-> 0,
      shown               |-> Null ]

\* the clearing of the display, as both no-detection branches do it
clearDisplay(t) ==
    [t EXCEPT !.noteInfo = Null,
              !.rawFrequency = Null,
              !.isDetecting = FALSE,
              !.smoothedCentsRef = 0,
              !.smoothedCents = 0,
              !.currentNoteRef = Null,
              !.candidateNoteRef = Null,
              !.candidateCountRef = 0]

\* the clearing with one frame more to wait
noDetection_OneLate(t) ==
    LET t1 == [t EXCEPT !.noDetectionCountRef = @ + 1]
    IN  IF t1.noDetectionCountRef > NoDetectionLimit + 1 THEN clearDisplay(t1)
        ELSE t1

\* a frame too quiet, or without a clear pitch
noDetection(t) ==
    LET t1 == [t EXCEPT !.noDetectionCountRef = @ + 1]
    IN  IF t1.noDetectionCountRef > NoDetectionLimit THEN clearDisplay(t1)
        ELSE t1

\* smoothedCentsRef * 0.7 + centsOff * 0.3, kept in whole cents
smooth(ref, centsOff) == (7 * ref + 3 * centsOff) \div 10

\* the note hysteresis of a frame with a pitch
hysteresis(t, info) ==
    IF Some(info.note) = t.currentNoteRef
    THEN [t EXCEPT !.noteInfo = Some(info),
                   !.candidateNoteRef = Null,
                   !.candidateCountRef = 0]
    ELSE IF Some(info.note) = t.candidateNoteRef
    THEN LET t1 == [t EXCEPT !.candidateCountRef = @ + 1,
                             !.candidateInfoRef = Some(info)]
         IN  IF t1.candidateCountRef >= NOTE_HOLD_FRAMES
             THEN [t1 EXCEPT !.currentNoteRef = Some(info.note),
                             !.noteInfo = Some(info),
                             !.candidateNoteRef = Null,
                             !.candidateCountRef = 0,
                             !.smoothedCentsRef = info.centsOff,
                             !.smoothedCents = info.centsOff]
             ELSE t1
    ELSE [t EXCEPT !.candidateNoteRef = Some(info.note),
                   !.candidateCountRef = 1,
                   !.candidateInfoRef = Some(info)]

\* a frame with a pitch
detected(t, info) ==
    LET ref == smooth(t.smoothedCentsRef, info.centsOff)
        t1 == [t EXCEPT !.rawFrequency = Some(info),
                        !.isDetecting = TRUE,
                        !.noDetectionCountRef = 0,
                        !.smoothedCentsRef = ref,
                        !.smoothedCents = ref]
        t2 == hysteresis(t1, info)
    IN  IF IsNull(t2.currentNoteRef)
        THEN [t2 EXCEPT !.currentNoteRef = Some(info.note),
                        !.noteInfo = Some(info)]
        ELSE t2

\* detect(), one analysis frame
detect(t, frame) ==
    IF frame.kind = "pitch" THEN detected(t, Val(frame.info))
    ELSE noDetection(t)

\* the history of a frame
frameHistory(t, frame) ==
    IF frame.kind = "pitch"
    THEN [ run |-> [note |-> Some(Val(frame.info).note),
                    len |-> IF t.run.note = Some(Val(frame.info).note)
                            THEN Min(t.run.len + 1, NOTE_HOLD_FRAMES)
                            ELSE 1],
           quiet |-> 0,
           shown |-> Null ]
    ELSE [ run |-> [note |-> Null, len |-> 0],
           quiet |-> t.quiet + 1,
           shown |-> IF t.quiet = 0 THEN t.noteInfo ELSE t.shown ]

\* ---------------------------------------------- the tunings of the tuner
NOTE_NAMES ==
    <<"C", "C#", "D", "D#", "E", "F", "F#", "G", "G#", "A", "A#", "B">>

\* the semitone of a note name, null for a name the table does not have
NOTE_TO_SEMITONE(noteName) ==
    LET at == {i \in 1..Len(NOTE_NAMES) : NOTE_NAMES[i] = noteName}
    IN  IF at = {} THEN Null ELSE Some((CHOOSE i \in at : TRUE) - 1)

\* the strings of the tunings, low to high
TUNINGS ==
    << <<>>,
       <<Note("E", 2), Note("A", 2), Note("D", 3), Note("G", 3), Note("B", 3), Note("E", 4)>>,
       <<Note("D", 2), Note("A", 2), Note("D", 3), Note("G", 3), Note("B", 3), Note("E", 4)>>,
       <<Note("D", 2), Note("G", 2), Note("D", 3), Note("G", 3), Note("B", 3), Note("D", 4)>>,
       <<Note("D", 2), Note("A", 2), Note("D", 3), Note("F#", 3), Note("A", 3), Note("D", 4)>>,
       <<Note("D", 2), Note("A", 2), Note("D", 3), Note("G", 3), Note("A", 3), Note("D", 4)>>,
       <<Note("D#", 2), Note("G#", 2), Note("C#", 3), Note("F#", 3), Note("A#", 3), Note("D#", 4)>>,
       <<Note("D", 2), Note("G", 2), Note("C", 3), Note("F", 3), Note("A", 3), Note("D", 4)>> >>

\* the notes frequencyToNote names for the 20 Hz to 5000 Hz detectPitch
\* lets through: octaves 0 to 8
DetectedNotes ==
    {Note(NOTE_NAMES[i], o) : i \in 1..Len(NOTE_NAMES), o \in 0..8}

noteToMidi(note) ==
    LET semitone == NOTE_TO_SEMITONE(note.noteName)
    IN  IF IsNull(semitone) THEN Null
        ELSE Some((note.octave + 1) * 12 + Val(semitone))

Abs(x) == IF x < 0 THEN -x ELSE x

\* one round of the loop that also takes a string as near as the closest
closer_OrEqual(distance, closestDistance) ==
    IF IsNull(closestDistance) THEN TRUE ELSE distance <= Val(closestDistance)

\* distance < closestDistance, closestDistance starting at Infinity (null)
closer(distance, closestDistance) ==
    IF IsNull(closestDistance) THEN TRUE ELSE distance < Val(closestDistance)

\* the loop over the strings from index i (0-based) on
RECURSIVE closestLoop(_, _, _, _, _)
closestLoop(strings, detectedMidi, i, closestIndex, closestDistance) ==
    IF i >= Len(strings) THEN closestIndex
    ELSE LET stringMidi == noteToMidi(strings[i + 1])
         IN  IF IsNull(stringMidi)
             THEN closestLoop(strings, detectedMidi, i + 1, closestIndex,
                              closestDistance)
             ELSE LET distance == Abs(detectedMidi - Val(stringMidi))
                  IN  IF closer(distance, closestDistance)
                      THEN closestLoop(strings, detectedMidi, i + 1, i,
                                       Some(distance))
                      ELSE closestLoop(strings, detectedMidi, i + 1,
                                       closestIndex, closestDistance)

\* findClosestString(detectedNote, detectedFrequency, tuning); the note
\* names here all match the pattern a detected note is parsed with
findClosestString(detectedNote, strings) ==
    IF Len(strings) = 0 THEN Null
    ELSE LET detectedMidi == noteToMidi(detectedNote)
         IN  IF IsNull(detectedMidi) THEN Null
             ELSE LET closestIndex ==
                          closestLoop(strings, Val(detectedMidi), 0, 0, Null)
                  IN  Some([ stringNote |-> strings[closestIndex + 1],
                             stringIndex |-> closestIndex ])

ClosestInit == [ detectedNote |-> Null, strings |-> <<>>, ret |-> Null ]


\* ------------------------------------- serialized buffers of a session
\* A Float32 sample is counted in steps of the Float32 grid, a JavaScript
\* number in steps of the finer grid of doubles.
Float32s == -1..1

SampleRates == {44100, 48000}

\* the AudioBuffers of c channels and n samples, with all their channels
AudioBuffers(c, n) ==
    { [ numberOfChannels |-> c, length |-> n, sampleRate |-> r,
        channels |-> d ] :
      d \in [1..c -> [1..n -> Float32s]], r \in SampleRates }

\* reading a Float32Array element gives the number of the same value
toNumber(f) == f * NumbersPerFloat

\* storing a number in a Float32Array rounds it to the nearest Float32
toFloat32(d) == ((2 * d) + NumbersPerFloat) \div (2 * NumbersPerFloat)

\* serializeBuffer that keeps the first channel only
serializeBuffer_Mono(buffer) ==
    [ch \in 1..1 |->
        [i \in 1..buffer.length |-> toNumber(buffer.channels[ch][i])]]

\* serializeBuffer(buffer): one plain array of numbers per channel
serializeBuffer(buffer) ==
    [ch \in 1..buffer.numberOfChannels |->
        [i \in 1..buffer.length |-> toNumber(buffer.channels[ch][i])]]

\* createBufferFromData(channelData, sampleRate): as many channels as
\* arrays, each as long as the first array; set() fills a channel from its
\* start and throws for an array longer than the channel
createBufferFromData(channelData, sampleRate) ==
    IF Len(channelData) = 0 THEN [outcome |-> "throw", buffer |-> Null]
    ELSE LET length == Len(channelData[1])
         IN  IF \E ch \in 1..Len(channelData) : Len(channelData[ch]) > length
             THEN [outcome |-> "throw", buffer |-> Null]
             ELSE [outcome |-> "ok",
                   buffer |-> Some(
                     [ numberOfChannels |-> Len(channelData),
                       length |-> length,
                       sampleRate |-> sampleRate,
                       channels |->
                         [ch \in 1..Len(channelData) |->
                            [i \in 1..length |->
                               IF i <= Len(channelData[ch])
                               THEN toFloat32(channelData[ch][i])
                               ELSE 0]] ])]

CodecInit == [ buffer |-> Null, data |-> Null, restored |-> Null ]

\* ------------------------------------------------ the tracks of the hook
\* trackId is the track's index; the model keeps two of the four tracks
TrackIds == {0, 1}

DEFAULT_TRACKS ==
    [i \in 1..Cardinality(TrackIds) |->
        [ id |-> i - 1, audioBuffer |-> Null, volume |-> 1,
          muted |-> FALSE, solo |-> FALSE, isRecording |-> FALSE,
          isArmed |-> i = 1 ]]

\* the hook's state besides the tracks; countInPending stands for the
\* count-in whose onDone is still to come, intervals for the live auto-stop
\* polls, each with the track id it closes over and whether it is the one
\* engine._autoStopInterval refers to
HookInit ==
    [ loopDuration         |-> 0,
      recordingStartPosRef |-> 0,
      isRecording          |-> FALSE,
      isCountingIn         |-> FALSE,
      countInEnabled       |-> TRUE,
      countInPending       |-> FALSE,
      intervals            |-> {},
      mixedBuffer          |-> Null,
      currentTime          |-> 0 ]

\* -------------------------------------------------------------- actions
vars == <<engine, lastCall, looper, gesture, hist, metro, tracksRef, hook,
          tuner, closest, codec>>
tunerVars == <<tuner, closest, codec>>
looperVars == <<looper, gesture, hist>>

SelectDevice ==
    /\ engine' = selectDevice(engine)
    /\ lastCall' = NoCall

StartRecording(monitorBuffers, loopDuration, playOffset) ==
    LET r == startRecording(engine, monitorBuffers, loopDuration, playOffset)
    IN  /\ engine' = r.e
        /\ lastCall' = Call("startRecording", r.outcome, Null, 0)

OnAudioProcess(i, chunk) ==
    LET r == onaudioprocess(engine, engine.processors[i], chunk)
    IN  /\ Len(engine.recordingChunks) < MaxChunks
        /\ engine' = r.e
        /\ lastCall' = Call("onaudioprocess",
                            IF r.threw THEN "throw" ELSE "ok", Null, 0)

StopRecording ==
    LET r == stopRecording(engine)
    IN  /\ engine' = r.e
        /\ lastCall' = Call("stopRecording", "ok", r.ret, 0)

PlayAll(tracks, loop, offset) ==
    /\ engine' = playAll(engine, tracks, loop, offset)
    /\ lastCall' = NoCall

SeekTo(time) ==
    LET r == seekTo(engine, time)
    IN  /\ engine' = r.e
        /\ lastCall' = Call("seekTo", "ok", Null, r.ret)

StopAllPlayback ==
    /\ engine' = stopAllPlayback(engine)
    /\ lastCall' = NoCall

\* the audio clock advances by one tick
Tick ==
    /\ engine.context
    /\ engine.currentTime < MaxClock
    /\ engine' = [engine EXCEPT !.currentTime = @ + 1]
    /\ lastCall' = NoCall

\* the looper is switched on (looper mode): its time-tracking effect takes
\* the engine's onTimeUpdate ...
Enable ==
    /\ ~looper.enabled
    /\ looper' = [looper EXCEPT !.enabled = TRUE]
    /\ engine' = [engine EXCEPT !.onTimeUpdate = "looper"]
    /\ hist' = [histReset(hist) EXCEPT !.cause = "mode"]
    /\ UNCHANGED <<lastCall, gesture, metro, tracksRef, hook, tunerVars>>

\* ... and off: the reset effect of useLooper, the cleanup of its
\* time-tracking effect (onTimeUpdate = null) and the disabled branch of
\* useGesture's effect
Disable ==
    LET s == resetOnDisable([l |-> looper, e |-> engine])
    IN  /\ looper.enabled
        /\ looper' = s.l
        /\ engine' = [s.e EXCEPT !.onTimeUpdate = "none"]
        /\ gesture' = disableGesture(gesture)
        /\ lastCall' = NoCall
        /\ hist' = [histNoPress(histReset(hist))
                        EXCEPT !.deletedFrom = looper.state, !.cause = "mode"]
        /\ UNCHANGED <<metro, tracksRef, hook, tunerVars>>

\* the gesture g reaches handleGesture; h is the history so far
Deliver(g, h) ==
    LET s == handleGesture([l |-> looper, e |-> engine], g)
    IN  /\ looper.enabled
        /\ (g = "tap" /\ looper.state = "playing") => looper.layerCount <= MaxLayers
        /\ looper' = s.l
        /\ engine' = s.e
        /\ lastCall' = NoCall
        /\ hist' = histGesture(h, looper, g)
        /\ UNCHANGED <<metro, tracksRef, hook, tunerVars>>

Gesture(g) ==
    /\ Deliver(g, hist)
    /\ UNCHANGED gesture

\* the 50 ms auto-stop poll of startOverdub runs
AutoStopPoll ==
    LET s == IF ~isRecording(engine)
             THEN handleOverdubComplete([l |-> looper, e |-> engine])
             ELSE [l |-> looper, e |-> engine]
    IN  /\ looper.polls > 0
        /\ looper' = s.l
        /\ engine' = s.e
        /\ lastCall' = NoCall
        /\ hist' = IF ~isRecording(engine)
                    THEN [histReset(hist) EXCEPT !.cause = "poll"]
                    ELSE hist
        /\ UNCHANGED <<gesture, metro, tracksRef, hook, tunerVars>>

\* a frame of the engine's time tracking reports the play-head
RafTick ==
    /\ engine.animFrameId
    /\ looper' = IF engine.onTimeUpdate = "looper"
                 THEN [looper EXCEPT !.currentTime = getCurrentTime(engine)]
                 ELSE looper
    /\ hook' = IF engine.onTimeUpdate = "hook"
               THEN [hook EXCEPT !.currentTime = getCurrentTime(engine)]
               ELSE hook
    /\ UNCHANGED <<engine, lastCall, gesture, hist, metro, tracksRef, tunerVars>>

KeyDown ==
    LET g == keyDownGesture(gesture)
        threw == handlerThrows([l |-> looper, e |-> engine], g)
    IN  /\ looper.enabled
        /\ IF gesture.isDown
           THEN UNCHANGED <<engine, lastCall, looper, hist, metro, tracksRef, hook, tunerVars>>
           ELSE Deliver(g, [histNoPress(hist)
                                EXCEPT !.pressPre = Snap(looper),
                                       !.pressEmit = g])
        /\ gesture' = handleKeyDown(gesture, threw)

KeyUp ==
    /\ looper.enabled
    /\ gesture' = handleKeyUp(gesture)
    /\ hist' = IF ~gesture.isDown THEN hist
                ELSE [histNoPress(hist) EXCEPT
                         !.relEmit = IF gesture.heldFor >= HOLD_DURATION
                                     THEN "none" ELSE hist.pressEmit]
    /\ UNCHANGED <<engine, lastCall, looper, metro, tracksRef, hook, tunerVars>>

HoldTimer ==
    /\ ~IsNull(gesture.holdTimer)
    /\ Val(gesture.holdTimer).in = 0
    /\ Deliver(Val(gesture.holdTimer).emit,
               [hist EXCEPT !.holdEmit = Val(gesture.holdTimer).emit])
    /\ gesture' = [gesture EXCEPT !.holdTimer = Null]

TapTimer ==
    /\ ~IsNull(gesture.tapTimer)
    /\ Val(gesture.tapTimer) = 0
    /\ gesture' = [gesture EXCEPT !.hadRecentTap = FALSE, !.tapTimer = Null]
    /\ hist' = [hist EXCEPT !.relEmit = "none"]
    /\ UNCHANGED <<engine, lastCall, looper, metro, tracksRef, hook, tunerVars>>

\* time left until the pending recognizer timers are due
Deadlines ==
    (IF IsNull(gesture.tapTimer) THEN {} ELSE {Val(gesture.tapTimer)})
    \cup (IF IsNull(gesture.holdTimer) THEN {} ELSE {Val(gesture.holdTimer).in})

\* Time passes, up to the next deadline or to the millisecond before it; a
\* due timer runs before time passes on.
Advance(d) ==
    /\ d > 0
    /\ \A t \in Deadlines : d <= t
    /\ gesture' = elapse(gesture, d)
    /\ gesture' # gesture
    /\ UNCHANGED <<engine, lastCall, looper, hist, metro, tracksRef, hook, tunerVars>>

AdvanceSteps ==
    IF Deadlines = {} THEN {HOLD_DURATION}
    ELSE UNION {{t - 1, t} : t \in Deadlines}

Init ==
    /\ engine \in {EngineInit(v) : v \in Variants}
    /\ lastCall = NoCall
    /\ looper = LooperInit
    /\ gesture = GestureInit
    /\ hist = HistInit
    /\ metro = MetroInit
    /\ tracksRef = DEFAULT_TRACKS
    /\ hook = HookInit
    /\ tuner = TunerInit
    /\ closest = ClosestInit
    /\ codec = CodecInit

\* the engine driven through its own entry points
Next ==
    \/ SelectDevice /\ UNCHANGED <<looperVars, metro, tracksRef, hook, tunerVars>>
    \/ \E m \in MonitorLists, d \in 0..MaxLoop, o \in CallerOffsets(engine) :
           StartRecording(m, d, o) /\ UNCHANGED <<looperVars, metro, tracksRef, hook, tunerVars>>
    \/ \E i \in 1..Len(engine.processors), c \in Chunks :
           OnAudioProcess(i, c) /\ UNCHANGED <<looperVars, metro, tracksRef, hook, tunerVars>>
    \/ StopRecording /\ UNCHANGED <<looperVars, metro, tracksRef, hook, tunerVars>>
    \/ \E t \in TrackLists, o \in CallerOffsets(engine) :
           PlayAll(t, TRUE, o) /\ UNCHANGED <<looperVars, metro, tracksRef, hook, tunerVars>>
    \/ \E t \in SeekTimes : SeekTo(t) /\ UNCHANGED <<looperVars, metro, tracksRef, hook, tunerVars>>
    \/ StopAllPlayback /\ UNCHANGED <<looperVars, metro, tracksRef, hook, tunerVars>>
    \/ Tick /\ UNCHANGED <<looperVars, metro, tracksRef, hook, tunerVars>>

Spec == Init /\ [][Next]_vars

\* the engine driven by the looper, the looper by gestures
EngineStep ==
    \/ SelectDevice /\ UNCHANGED <<looperVars, metro, tracksRef, hook, tunerVars>>
    \/ \E i \in 1..Len(engine.processors), c \in LoopChunks :
           OnAudioProcess(i, c) /\ UNCHANGED <<looperVars, metro, tracksRef, hook, tunerVars>>
    \/ Tick /\ UNCHANGED <<looperVars, metro, tracksRef, hook, tunerVars>>

LooperNext ==
    \/ EngineStep
    \/ Enable
    \/ Disable
    \/ \E g \in Gestures : Gesture(g)
    \/ AutoStopPoll
    \/ RafTick

LooperSpec == Init /\ [][LooperNext]_vars

\* the looper driven by the key, through the gesture recognizer
SystemNext ==
    \/ EngineStep
    \/ Enable
    \/ Disable
    \/ KeyDown
    \/ KeyUp
    \/ HoldTimer
    \/ TapTimer
    \/ \E d \in AdvanceSteps : Advance(d)
    \/ AutoStopPoll
    \/ RafTick

SystemSpec == Init /\ [][SystemNext]_vars

\* ------------------------------------------- metronome: entry points
engineVars == <<engine, lastCall, looper, gesture, hist, tracksRef, hook,
                tunerVars>>

Bpms == {120, 300}
BeatsPerBar == {3, 4}

\* nothing has been started yet: the settings are made first
Unused(m) == m.now = 0 /\ m.starts = 0 /\ m.countIns = 0

SetBpm(bpm) ==
    /\ Unused(metro)
    /\ metro' = setBpm(metro, bpm)
    /\ UNCHANGED engineVars

SetBeatsPerBar(beats) ==
    /\ Unused(metro)
    /\ metro' = setBeatsPerBar(metro, beats)
    /\ UNCHANGED engineVars

SetMetronomeAudible(audible) ==
    /\ Unused(metro)
    /\ metro' = setMetronomeAudible(metro, engine, audible)
    /\ UNCHANGED engineVars

\* a behaviour runs the metronome or count-ins
StartMetronome ==
    /\ metro.now <= MaxCallTime
    /\ metro.countIns = 0
    /\ metro.metronomeEnabled \/ metro.starts < MaxStarts
    /\ metro' = startMetronome(metro, engine)
    /\ UNCHANGED engineVars

StopMetronome ==
    /\ metro' = stopMetronome(metro)
    /\ UNCHANGED engineVars

MetronomeTimer ==
    /\ ~IsNull(metro.metronomeIntervalId)
    /\ Val(metro.metronomeIntervalId) <= 0
    /\ metro' = [metronomeCallback(metro, engine) EXCEPT
                    !.metronomeIntervalId = Some(Val(@) + checkInterval)]
    /\ UNCHANGED engineVars

\* the count-in in progress, if any, is cancelled by the call
cancelCountIn(m) ==
    IF IsNull(m.countInIntervalId) THEN m
    ELSE [m EXCEPT !.cancelled = @ \cup {Val(m.countInIntervalId).run}]

\* startCountIn exists in the shared-tape engine only
StartCountIn ==
    /\ engine.variant = "tape"
    /\ metro.now <= MaxCallTime
    /\ metro.starts = 0
    /\ metro.countIns < MaxCountIns
    /\ metro' = startCountIn(
                    [cancelCountIn(metro) EXCEPT !.countIns = @ + 1],
                    engine, metro.countIns + 1)
    /\ UNCHANGED engineVars

StopCountIn ==
    /\ engine.variant = "tape"
    /\ metro' = stopCountIn(cancelCountIn(metro))
    /\ UNCHANGED engineVars

CountInTimer ==
    /\ ~IsNull(metro.countInIntervalId)
    /\ Val(metro.countInIntervalId).left <= 0
    /\ metro' = countInCallback(metro, engine, Val(metro.countInIntervalId))
    /\ UNCHANGED engineVars

\* checkInterval ms pass; a due callback runs at most MaxLate steps late
MetroTick ==
    /\ metro.now < RunMs + MaxCallTime
    /\ \/ metro.metronomeEnabled
       \/ ~IsNull(metro.countInIntervalId)
       \/ metro.now < MaxCallTime
       \/ PendingClicks(metro) # {}
    /\ IF IsNull(metro.metronomeIntervalId) THEN TRUE
       ELSE Val(metro.metronomeIntervalId) > -(MaxLate * checkInterval)
    /\ IF IsNull(metro.countInIntervalId) THEN TRUE
       ELSE Val(metro.countInIntervalId).left > -(MaxLate * checkInterval)
    /\ metro' = [metro EXCEPT
           !.now = @ + checkInterval,
           !.metronomeIntervalId =
               IF IsNull(@) THEN @ ELSE Some(Val(@) - checkInterval),
           !.countInIntervalId =
               IF IsNull(@) THEN @
               ELSE Some([Val(@) EXCEPT !.left = @ - checkInterval])]
    /\ UNCHANGED engineVars

\* the metronome and the count-in of an engine
MetroNext ==
    \/ SelectDevice /\ Unused(metro) /\ UNCHANGED <<looperVars, metro, tracksRef, hook, tunerVars>>
    \/ \E b \in Bpms : SetBpm(b)
    \/ \E b \in BeatsPerBar : SetBeatsPerBar(b)
    \/ \E a \in BOOLEAN : SetMetronomeAudible(a)
    \/ StartMetronome
    \/ StopMetronome
    \/ MetronomeTimer
    \/ StartCountIn
    \/ StopCountIn
    \/ CountInTimer
    \/ MetroTick

MetroSpec == Init /\ [][MetroNext]_vars

\* ------------------------------------------ the mixer of useAudioEngine
\* the fader position a fader is moved to: above zero (at zero a track is
\* silent whatever its flags)
Volumes == {1}

\* a track as a session stores it, with or without audio
SavedTracks ==
    { [ audioData |-> a, volume |-> 1, muted |-> FALSE, solo |-> FALSE ] :
          a \in {Null, Some(BufB)} }

\* sessions in the store
Sessions ==
    { [ bpm |-> 120, tracks |-> s,
        loopDuration |-> IF \A i \in TrackIds : IsNull(s[i].audioData) THEN 0
                         ELSE duration(BufB) ] :
      s \in [TrackIds -> SavedTracks] }

\* the engine's track for a track of the hook
trackData(t) ==
    [ buffer |-> t.audioBuffer, volume |-> t.volume, muted |-> t.muted,
      solo |-> t.solo, startOffset |-> 0 ]

\* tracksRef.current.filter(t => t.audioBuffer).map(...)
RECURSIVE playTracks(_)
playTracks(ts) ==
    IF ts = <<>> THEN <<>>
    ELSE IF IsNull(Head(ts).audioBuffer) THEN playTracks(Tail(ts))
         ELSE <<trackData(Head(ts))>> \o playTracks(Tail(ts))

\* prev.map(t => t.id === trackId ? { ...t, changed } : t), changed[i] being
\* the changed copy of ts[i]
mapTrack(ts, trackId, changed) ==
    [i \in 1..Len(ts) |-> IF ts[i].id = trackId THEN changed[i] ELSE ts[i]]

LoadSessionById(session) ==
    LET restored(t) ==
            LET saved == session.tracks[t.id]
            IN  [t EXCEPT !.audioBuffer = saved.audioData,
                          !.volume = saved.volume,
                          !.muted = saved.muted,
                          !.solo = saved.solo]
    IN  /\ engine' = IF isPlaying(engine) THEN stopAllPlayback(engine)
                     ELSE engine
        /\ metro' = setBpm(metro, session.bpm)
        /\ tracksRef' = [i \in 1..Len(DEFAULT_TRACKS) |->
                             restored(DEFAULT_TRACKS[i])]
        /\ hook' = [hook EXCEPT !.loopDuration = session.loopDuration,
                                !.isRecording = FALSE,
                                !.currentTime = 0]
        /\ lastCall' = NoCall
        /\ UNCHANGED <<looperVars, tunerVars>>

Play ==
    LET ts == playTracks(tracksRef)
    IN  /\ engine' = IF Len(ts) = 0 THEN engine
                     ELSE playAll(engine, ts, TRUE, getCurrentTime(engine))
        /\ lastCall' = NoCall
        /\ UNCHANGED <<looperVars, metro, tracksRef, hook, tunerVars>>

Stop ==
    LET pos == getCurrentTime(engine)
    IN  /\ engine' = seekTo(stopAllPlayback(engine), pos).e
        /\ hook' = [hook EXCEPT !.currentTime = pos]
        /\ lastCall' = NoCall
        /\ UNCHANGED <<looperVars, metro, tracksRef, tunerVars>>

\* seekTo of the hook: the play-head shown is the time the engine returns
HookSeekTo(time) ==
    /\ SeekTo(time)
    /\ hook' = [hook EXCEPT !.currentTime = lastCall'.num]
    /\ UNCHANGED <<looperVars, metro, tracksRef, tunerVars>>

SetVolume(trackId, volume) ==
    LET changed == [i \in 1..Len(tracksRef) |->
                        [tracksRef[i] EXCEPT !.volume = volume]]
    IN  /\ tracksRef' = mapTrack(tracksRef, trackId, changed)
        /\ engine' = setTrackVolume(engine, trackId, volume)
        /\ lastCall' = NoCall
        /\ UNCHANGED <<looperVars, metro, hook, tunerVars>>

ToggleMute(trackId) ==
    LET changed == [i \in 1..Len(tracksRef) |->
                        [tracksRef[i] EXCEPT !.muted = ~@]]
    IN  /\ tracksRef' = mapTrack(tracksRef, trackId, changed)
        /\ UNCHANGED <<engine, lastCall, looperVars, metro, hook, tunerVars>>

ToggleSolo(trackId) ==
    LET changed == [i \in 1..Len(tracksRef) |->
                        [tracksRef[i] EXCEPT !.solo = ~@]]
    IN  /\ tracksRef' = mapTrack(tracksRef, trackId, changed)
        /\ UNCHANGED <<engine, lastCall, looperVars, metro, hook, tunerVars>>

\* the transport and the channel strips of the multitrack view; the
\* play-head moves by seeking
MixerNext ==
    \/ SelectDevice /\ UNCHANGED <<looperVars, metro, tracksRef, hook, tunerVars>>
    \/ \E s \in Sessions : LoadSessionById(s)
    \/ Play
    \/ Stop
    \/ \E t \in 0..MaxSeek : HookSeekTo(t)
    \/ \E id \in TrackIds, v \in Volumes : SetVolume(id, v)
    \/ \E id \in TrackIds : ToggleMute(id)
    \/ \E id \in TrackIds : ToggleSolo(id)

MixerSpec == Init /\ [][MixerNext]_vars

\* the multitrack transport with the mode switch of the app: the looper is
\* entered from an idle transport and left again, sessions are loaded and
\* played in the multitrack view, and the engine's animation frame runs
TransportNext ==
    \/ ~looper.enabled /\ SelectDevice /\ UNCHANGED <<looperVars, metro, tracksRef, hook, tunerVars>>
    \/ \E s \in Sessions : ~looper.enabled /\ LoadSessionById(s)
    \/ ~looper.enabled /\ Play
    \/ ~looper.enabled /\ Stop
    \/ ~isPlaying(engine) /\ ~isRecording(engine) /\ Enable
    \/ Disable
    \/ Tick /\ UNCHANGED <<looperVars, metro, tracksRef, hook, tunerVars>>
    \/ RafTick

TransportSpec == Init /\ [][TransportNext]_vars

\* ---------------------------------------- recording with useAudioEngine
\* The handlers run where the multitrack view lets them: the record button
\* starts a recording when none is shown as running and stops it otherwise,
\* and a track's menu offers the clearing only for a track with audio. The
\* clicks of a count-in are followed in MetroSpec; here a count-in is the
\* pending call of its onDone.

\* Math.round(d / n) for d >= 0
Round(d, n) == (2 * d + n) \div (2 * n)

\* tracksRef.current.find(t => t.isArmed)
armedTrack(ts) ==
    LET at == {i \in 1..Len(ts) : ts[i].isArmed}
    IN  IF at = {} THEN Null
        ELSE Some(ts[CHOOSE i \in at : \A j \in at : i <= j])

\* tracksRef.current.find(t => t.isRecording)
recordingTrack(ts) ==
    LET at == {i \in 1..Len(ts) : ts[i].isRecording}
    IN  IF at = {} THEN Null
        ELSE Some(ts[CHOOSE i \in at : \A j \in at : i <= j])

\* the tracks but the armed one that have audio, as monitor tracks
RECURSIVE monitorBuffers(_, _)
monitorBuffers(ts, armedId) ==
    IF ts = <<>> THEN <<>>
    ELSE IF Head(ts).id = armedId \/ IsNull(Head(ts).audioBuffer)
         THEN monitorBuffers(Tail(ts), armedId)
         ELSE << [ buffer |-> Head(ts).audioBuffer, volume |-> Head(ts).volume,
                   muted |-> Head(ts).muted, solo |-> FALSE,
                   startOffset |-> 0 ] >>
              \o monitorBuffers(Tail(ts), armedId)

\* the buffer rotated so that its sample 0 is tape position 0
alignBufferToTapeStart(buffer, startPos) ==
    LET totalSamples == Len(buffer)
        offsetSamples == Min(Round(startPos, TicksPerSample), totalSamples)
        tailStart == totalSamples - offsetSamples
    IN  IF startPos <= 0 \/ offsetSamples <= 0 \/ offsetSamples >= totalSamples
        THEN buffer
        ELSE SubSeq(buffer, tailStart + 1, totalSamples)
                 \o SubSeq(buffer, 1, tailStart)

\* a new auto-stop poll for the track of id trackId: engine._autoStopInterval
\* now refers to it and to no earlier one
newInterval(intervals, trackId) ==
    {[id |-> x.id, current |-> FALSE] : x \in intervals}
        \cup {[id |-> trackId, current |-> TRUE]}

\* beginRecordingNow on the engine e, the tracks ts and the hook state h
beginRecordingNow(e, ts, h) ==
    LET armed == armedTrack(ts)
    IN  IF IsNull(armed) THEN [e |-> e, ts |-> ts, h |-> h]
        ELSE LET hasLoop == h.loopDuration > 0
                 currentPos == IF hasLoop THEN getCurrentTime(e) ELSE 0
                 r == startRecording(e, monitorBuffers(ts, Val(armed).id),
                                     IF hasLoop THEN h.loopDuration ELSE 0,
                                     currentPos)
                 h1 == [h EXCEPT !.recordingStartPosRef = currentPos,
                                 !.isRecording = TRUE,
                                 !.isCountingIn = FALSE]
             IN  [ e |-> r.e,
                   ts |-> mapTrack(ts, Val(armed).id,
                              [i \in 1..Len(ts) |->
                                   [ts[i] EXCEPT !.isRecording = TRUE]]),
                   h |-> IF r.outcome = "throw" THEN h1
                         ELSE [h1 EXCEPT !.intervals =
                                   newInterval(@, Val(armed).id)] ]

\* handleRecordingComplete that takes an empty result for a recording
handleRecordingComplete_NullClears(ts, h, trackId, buffer) ==
    [ ts |-> mapTrack(ts, trackId,
                 [i \in 1..Len(ts) |->
                      [ts[i] EXCEPT !.isRecording = FALSE,
                                    !.audioBuffer = buffer]]),
      h |-> [h EXCEPT !.isRecording = FALSE,
                      !.loopDuration = IF IsNull(buffer) THEN 0 ELSE @] ]

\* handleRecordingComplete that lets every recording set the tape length
handleRecordingComplete_LastSets(ts, h, trackId, buffer) ==
    [ ts |-> mapTrack(ts, trackId,
                 [i \in 1..Len(ts) |->
                      [ts[i] EXCEPT !.isRecording = FALSE,
                                    !.audioBuffer =
                                        IF IsNull(buffer) THEN @ ELSE buffer]]),
      h |-> [h EXCEPT !.isRecording = FALSE,
                      !.loopDuration = IF IsNull(buffer) THEN @
                                       ELSE duration(Val(buffer))] ]

\* handleRecordingComplete(trackId, buffer)
handleRecordingComplete(ts, h, trackId, buffer) ==
    LET recordStartPos == h.recordingStartPosRef
        finalBuffer ==
            IF ~IsNull(buffer) /\ h.loopDuration > 0 /\ recordStartPos > 0
            THEN Some(alignBufferToTapeStart(Val(buffer), recordStartPos))
            ELSE buffer
    IN  [ ts |-> mapTrack(ts, trackId,
                     [i \in 1..Len(ts) |->
                          [ts[i] EXCEPT !.isRecording = FALSE,
                                        !.audioBuffer =
                                            IF IsNull(finalBuffer) THEN @
                                            ELSE finalBuffer]]),
          h |-> [h EXCEPT !.isRecording = FALSE,
                          !.loopDuration =
                              IF ~IsNull(finalBuffer) /\ h.loopDuration <= 0
                              THEN duration(Val(finalBuffer)) ELSE @] ]

\* the tracks after armTrack that leaves the other tracks as they are
armTrack_KeepsOthers(ts, trackId) ==
    [i \in 1..Len(ts) |->
        IF ts[i].id = trackId THEN [ts[i] EXCEPT !.isArmed = TRUE] ELSE ts[i]]

\* prev.map(t => ({ ...t, isArmed: t.id === trackId }))
armTrack(ts, trackId) ==
    [i \in 1..Len(ts) |-> [ts[i] EXCEPT !.isArmed = (ts[i].id = trackId)]]

\* exportMix that renders the unmuted tracks whatever is soloed
shouldRender_NoSolo(tracks, i) == ~tracks[i].muted

\* shouldPlay of exportMix for the track at position i
shouldRender(tracks, i) ==
    IF \E j \in 1..Len(tracks) : tracks[j].solo THEN tracks[i].solo
    ELSE ~tracks[i].muted

\* exportMix(tracks, duration): the length of the rendered buffer and the
\* positions and gains of the tracks rendered into it
exportMix(e, tracks, dur) ==
    [ length |-> Ceil(dur, TicksPerSample),
      rendered |-> {i \in 1..Len(tracks) :
                       ~IsNull(tracks[i].buffer) /\ shouldRender(tracks, i)},
      gains |-> [i \in 1..Len(tracks) |-> tracks[i].volume] ]

ArmTrack(trackId) ==
    /\ tracksRef' = armTrack(tracksRef, trackId)
    /\ UNCHANGED <<engine, lastCall, looperVars, metro, hook, tunerVars>>

ToggleCountIn ==
    /\ hook' = [hook EXCEPT !.countInEnabled = ~@]
    /\ UNCHANGED <<engine, lastCall, looperVars, metro, tracksRef, tunerVars>>

\* startRecording of the hook
HookStartRecording ==
    /\ ~hook.isRecording
    /\ IF IsNull(armedTrack(tracksRef))
       THEN UNCHANGED <<engine, tracksRef, hook>>
       ELSE IF hook.loopDuration > 0 /\ hook.countInEnabled /\ engine.context
       THEN /\ hook' = [hook EXCEPT !.isCountingIn = TRUE,
                                    !.countInPending = TRUE]
            /\ UNCHANGED <<engine, tracksRef>>
       ELSE LET r == beginRecordingNow(engine, tracksRef,
                         IF hook.loopDuration > 0 /\ hook.countInEnabled
                         THEN [hook EXCEPT !.isCountingIn = TRUE] ELSE hook)
            IN  /\ engine' = r.e
                /\ tracksRef' = r.ts
                /\ hook' = r.h
    /\ lastCall' = NoCall
    /\ UNCHANGED <<looperVars, metro, tunerVars>>

\* the onDone of the count-in
CountInDone ==
    /\ hook.countInPending
    /\ LET r == beginRecordingNow(engine, tracksRef,
                                  [hook EXCEPT !.countInPending = FALSE])
       IN  /\ engine' = r.e
           /\ tracksRef' = r.ts
           /\ hook' = r.h
    /\ lastCall' = NoCall
    /\ UNCHANGED <<looperVars, metro, tunerVars>>

\* stopRecording of the hook
HookStopRecording ==
    /\ hook.isRecording
    /\ LET h1 == [hook EXCEPT !.countInPending = FALSE,
                              !.isCountingIn = FALSE,
                              !.intervals = {x \in @ : ~x.current}]
           r == stopRecording(engine)
           armed == recordingTrack(tracksRef)
           c == IF IsNull(armed) THEN [ts |-> tracksRef, h |-> h1]
                ELSE handleRecordingComplete(tracksRef, h1, Val(armed).id,
                                             r.ret)
       IN  /\ engine' = r.e
           /\ tracksRef' = c.ts
           /\ hook' = c.h
           /\ lastCall' = Call("stopRecording", "ok", r.ret, 0)
    /\ UNCHANGED <<looperVars, metro, tunerVars>>

\* the auto-stop poll x finds the engine not recording
HookAutoStopPoll(x) ==
    /\ x \in hook.intervals
    /\ ~isRecording(engine)
    /\ LET r == stopRecording(engine)
           c == handleRecordingComplete(tracksRef,
                    [hook EXCEPT !.intervals = @ \ {x}], x.id, r.ret)
       IN  /\ engine' = r.e
           /\ tracksRef' = c.ts
           /\ hook' = c.h
           /\ lastCall' = Call("stopRecording", "ok", r.ret, 0)
    /\ UNCHANGED <<looperVars, metro, tunerVars>>

ClearTrack(trackId) ==
    LET updated == mapTrack(tracksRef, trackId,
                       [i \in 1..Len(tracksRef) |->
                            [tracksRef[i] EXCEPT !.audioBuffer = Null]])
        hasAnyAudio == \E i \in 1..Len(updated) : ~IsNull(updated[i].audioBuffer)
    IN  /\ \E i \in 1..Len(tracksRef) :
               tracksRef[i].id = trackId /\ ~IsNull(tracksRef[i].audioBuffer)
        /\ engine' = IF isPlaying(engine) THEN stopAllPlayback(engine)
                     ELSE engine
        /\ tracksRef' = updated
        /\ hook' = IF hasAnyAudio THEN hook
                   ELSE [hook EXCEPT !.loopDuration = 0, !.currentTime = 0]
        /\ lastCall' = NoCall
        /\ UNCHANGED <<looperVars, metro, tunerVars>>

ClearAll ==
    /\ tracksRef' = [i \in 1..Len(tracksRef) |->
                         [tracksRef[i] EXCEPT !.audioBuffer = Null]]
    /\ hook' = [hook EXCEPT !.loopDuration = 0]
    /\ UNCHANGED <<engine, lastCall, looperVars, metro, tunerVars>>

NewSession ==
    /\ engine' = IF isPlaying(engine) THEN stopAllPlayback(engine) ELSE engine
    /\ tracksRef' = DEFAULT_TRACKS
    /\ hook' = [hook EXCEPT !.isRecording = FALSE, !.loopDuration = 0,
                            !.currentTime = 0]
    /\ lastCall' = NoCall
    /\ UNCHANGED <<looperVars, metro, tunerVars>>

\* exportWav: the mix of the tracks with audio over the tape length
ExportWav ==
    LET ts == playTracks(tracksRef)
    IN  /\ Len(ts) > 0
        /\ hook.loopDuration > 0
        /\ hook' = [hook EXCEPT !.mixedBuffer =
                        Some([ tracks |-> ts, duration |-> hook.loopDuration,
                               mix |-> exportMix(engine, ts, hook.loopDuration) ])]
        /\ UNCHANGED <<engine, lastCall, looperVars, metro, tracksRef, tunerVars>>

\* the engine of the hook is the shared-tape one
TapeEngine == engine.variant = "tape"

\* the multitrack view on the shared-tape engine, recording from the start
\* of the tape (the transport stays stopped)
HookNext ==
    \/ TapeEngine /\ SelectDevice /\ UNCHANGED <<looperVars, metro, tracksRef, hook, tunerVars>>
    \/ \E id \in TrackIds : TapeEngine /\ ArmTrack(id)
    \/ TapeEngine /\ ToggleCountIn
    \/ TapeEngine /\ HookStartRecording
    \/ TapeEngine /\ CountInDone
    \/ \E i \in 1..Len(engine.processors), c \in LoopChunks :
           TapeEngine /\ OnAudioProcess(i, c) /\ UNCHANGED <<looperVars, metro, tracksRef, hook, tunerVars>>
    \/ TapeEngine /\ HookStopRecording
    \/ \E x \in hook.intervals : TapeEngine /\ HookAutoStopPoll(x)
    \/ \E id \in TrackIds : TapeEngine /\ ClearTrack(id)
    \/ TapeEngine /\ ClearAll
    \/ \E s \in Sessions : TapeEngine /\ LoadSessionById(s)
    \/ TapeEngine /\ NewSession

HookSpec == Init /\ [][HookNext]_vars

\* the export of a loaded session, with the channel strips' mute and solo
ExportNext ==
    \/ TapeEngine /\ SelectDevice /\ UNCHANGED <<looperVars, metro, tracksRef, hook, tunerVars>>
    \/ \E s \in Sessions : TapeEngine /\ LoadSessionById(s)
    \/ \E id \in TrackIds : TapeEngine /\ ToggleMute(id)
    \/ \E id \in TrackIds : TapeEngine /\ ToggleSolo(id)
    \/ TapeEngine /\ ExportWav

ExportSpec == Init /\ [][ExportNext]_vars

\* the multitrack view before looper mode was ever entered
MultitrackOnly ==
    TapeEngine /\ looper = LooperInit /\ gesture = GestureInit /\ hist = HistInit

\* chunks whose samples tell their place in the recording apart
TapeChunks ==
    { [i \in 1..BufferSize |-> i] }

\* recording onto the tape with the play-head moved by seeking: a first
\* recording, then overdubs (after their count-in) started anywhere in the
\* loop and stopped by the record button; the auto-stop poll finds the engine
\* recording every time and does nothing
TapeNext ==
    \/ TapeEngine /\ SelectDevice /\ UNCHANGED <<looperVars, metro, tracksRef, hook, tunerVars>>
    \/ \E id \in TrackIds : TapeEngine /\ ArmTrack(id)
    \/ TapeEngine /\ HookStartRecording
    \/ TapeEngine /\ CountInDone
    \/ \E i \in 1..Len(engine.processors), c \in TapeChunks :
           TapeEngine /\ OnAudioProcess(i, c) /\ UNCHANGED <<looperVars, metro, tracksRef, hook, tunerVars>>
    \/ TapeEngine /\ HookStopRecording
    \/ \E t \in 0..MaxSeek : TapeEngine /\ ~hook.isRecording /\ HookSeekTo(t)

TapeSpec == Init /\ [][TapeNext]_vars

\* one view for a run: the work is done in looper mode, entered from the
\* untouched multitrack view, or in the multitrack view (with the count-in
\* left enabled)
RecorderNext ==
    \/ tracksRef = DEFAULT_TRACKS /\ hook = HookInit /\ Enable
    \/ looper.enabled /\ SelectDevice /\ UNCHANGED <<looperVars, metro, tracksRef, hook, tunerVars>>
    \/ \E i \in 1..Len(engine.processors), c \in LoopChunks :
           looper.enabled /\ OnAudioProcess(i, c) /\ UNCHANGED <<looperVars, metro, tracksRef, hook, tunerVars>>
    \/ looper.enabled /\ Tick /\ UNCHANGED <<looperVars, metro, tracksRef, hook, tunerVars>>
    \/ looper.enabled /\ Disable
    \/ \E g \in Gestures : looper.enabled /\ Gesture(g)
    \/ looper.enabled /\ AutoStopPoll
    \/ looper.enabled /\ RafTick
    \/ MultitrackOnly /\ SelectDevice /\ UNCHANGED <<looperVars, metro, tracksRef, hook, tunerVars>>
    \/ \E id \in TrackIds : MultitrackOnly /\ ArmTrack(id)
    \/ MultitrackOnly /\ HookStartRecording
    \/ MultitrackOnly /\ CountInDone
    \/ \E i \in 1..Len(engine.processors), c \in LoopChunks :
           MultitrackOnly /\ OnAudioProcess(i, c) /\ UNCHANGED <<looperVars, metro, tracksRef, hook, tunerVars>>
    \/ MultitrackOnly /\ HookStopRecording
    \/ \E x \in hook.intervals : MultitrackOnly /\ HookAutoStopPoll(x)
    \/ \E id \in TrackIds : MultitrackOnly /\ ClearTrack(id)
    \/ MultitrackOnly /\ ClearAll
    \/ \E s \in Sessions : MultitrackOnly /\ LoadSessionById(s)
    \/ MultitrackOnly /\ NewSession

RecorderSpec == Init /\ [][RecorderNext]_vars

\* ------------------------------------------------- the tuner's frames
\* one requestAnimationFrame callback of the tuner
Frame(frame) ==
    /\ frame.kind # "pitch" => tuner.quiet < MaxQuiet
    /\ tuner' = [detect(tuner, frame) EXCEPT
                     !.run = frameHistory(tuner, frame).run,
                     !.quiet = frameHistory(tuner, frame).quiet,
                     !.shown = frameHistory(tuner, frame).shown]
    /\ UNCHANGED <<engine, lastCall, looperVars, metro, tracksRef, hook, closest, codec>>

TunerNext == \E f \in Frames : Frame(f)

TunerSpec == Init /\ [][TunerNext]_vars

\* the tuner display looks up the string for a note; the function keeps no
\* state, so a behaviour follows one call
FindClosestString(detectedNote, strings) ==
    /\ IsNull(closest.detectedNote)
    /\ closest' = [ detectedNote |-> Some(detectedNote), strings |-> strings,
                    ret |-> findClosestString(detectedNote, strings) ]
    /\ UNCHANGED <<engine, lastCall, looperVars, metro, tracksRef, hook, tuner, codec>>

ClosestNext ==
    \E n \in DetectedNotes, i \in 1..Len(TUNINGS) : FindClosestString(n, TUNINGS[i])

ClosestSpec == Init /\ [][ClosestNext]_vars

\* a buffer is serialized for the session store ...
SerializeBuffer(buffer) ==
    /\ IsNull(codec.buffer)
    /\ codec' = [codec EXCEPT !.buffer = Some(buffer),
                              !.data = Some(serializeBuffer(buffer))]
    /\ UNCHANGED <<engine, lastCall, looperVars, metro, tracksRef, hook, tuner, closest>>

\* ... and made into a buffer again, at the sample rate it had
CreateBufferFromData ==
    /\ ~IsNull(codec.data)
    /\ IsNull(codec.restored)
    /\ codec' = [codec EXCEPT !.restored =
                     createBufferFromData(Val(codec.data),
                                          Val(codec.buffer).sampleRate).buffer]
    /\ UNCHANGED <<engine, lastCall, looperVars, metro, tracksRef, hook, tuner, closest>>

CodecNext ==
    \/ \E c \in 1..MaxChannels, n \in 1..MaxBufLen :
           IsNull(codec.buffer) /\ \E b \in AudioBuffers(c, n) : SerializeBuffer(b)
    \/ CreateBufferFromData

CodecSpec == Init /\ [][CodecNext]_vars

\* =============================================================== claims
\* the processor of the recording in progress (this.scriptProcessor)
CurrentProcessor == engine.processors[Len(engine.processors)]

\* C1: once a loop is defined, getCurrentTime() is always in the half-open
\* range [0, loopDuration).
C1_CurrentTimeInLoop ==
    (engine.context /\ engine.loopDuration > 0)
        => (0 <= getCurrentTime(engine)
            /\ getCurrentTime(engine) < engine.loopDuration)

\* C1, second half: while playing, a clock advance never decreases
\* getCurrentTime() except when it wraps from the loop end back to 0.
C1_MonotonicWhilePlaying ==
    [][(engine.isCurrentlyPlaying /\ engine.loopDuration > 0
        /\ engine' = [engine EXCEPT !.currentTime = @ + 1])
           => \/ getCurrentTime(engine') = getCurrentTime(engine) + 1
              \/ /\ getCurrentTime(engine') = 0
                 /\ getCurrentTime(engine) = engine.loopDuration - 1]_vars

\* C2: a recording started with loop duration D > 0 never holds more than
\* ceil(D x sampleRate) samples, and once it holds that many isRecording()
\* is false without any stop call.
C2_CaptureNeverOverruns ==
    (engine.scriptProcessor /\ CurrentProcessor.capped)
        => /\ SumLen(engine.recordingChunks) <= CurrentProcessor.maxSamples
           /\ (SumLen(engine.recordingChunks) = CurrentProcessor.maxSamples
                   => ~isRecording(engine))

\* C3: the capture callback returns normally for every chunk: no exception
\* propagates out of it.
C3_CallbackNeverThrows ==
    lastCall.op = "onaudioprocess" => lastCall.outcome # "throw"

\* C4: stopRecording() called while the engine is not recording returns
\* null and changes no transport state (playing flag, active playback
\* sources, play offset).
C4_StopRecordingIdleIsNoOp ==
    [][(~isRecording(engine) /\ StopRecording)
           => /\ IsNull(lastCall'.buf)
              /\ engine'.isCurrentlyPlaying = engine.isCurrentlyPlaying
              /\ engine'.playbackSources = engine.playbackSources
              /\ engine'.playStartOffset = engine.playStartOffset]_vars

\* C5: a startRecording call rejected because no input device is selected
\* (it throws) or because a recording is in progress (silent no-op) leaves
\* the whole engine state unchanged.
C5_RejectedStartRecording ==
    [][(lastCall'.op = "startRecording"
        /\ (~engine.context \/ ~engine.sourceNode \/ isRecording(engine)))
           => /\ engine' = engine
              /\ lastCall'.outcome =
                     IF ~engine.context \/ ~engine.sourceNode
                     THEN "throw" ELSE "noop"]_vars

\* C5 witness: a start was rejected while a recording holding chunks was
\* in progress
C5_Witness ==
    /\ lastCall.op = "startRecording"
    /\ lastCall.outcome = "noop"
    /\ isRecording(engine)
    /\ engine.recordingChunks # <<>>

\* what the looper shows and the engine does after a full reset
LoopDeleted(l, e) ==
    /\ l.state = "empty"
    /\ IsNull(l.compositeRef) /\ IsNull(l.undoBufferRef)
    /\ l.layerCount = 0 /\ l.loopDuration = 0 /\ l.currentTime = 0
    /\ ~l.canUndo
    /\ ~l.autoStopRef /\ l.polls = 0
    /\ ~isRecording(e) /\ ~isPlaying(e) /\ e.playbackSources = <<>>

\* C6: with a device selected a tap in state empty moves the looper to
\* recording; a tap in recording with at least one captured sample moves it
\* to playing with layerCount 1, loopDuration the captured buffer's duration
\* (> 0), the captured buffer as composite, and the composite playing.
C6_FirstLoop ==
    [][/\ (Gesture("tap") /\ looper.state = "empty"
           /\ engine.context /\ engine.sourceNode)
              => looper'.state = "recording" /\ isRecording(engine')
       /\ (Gesture("tap") /\ looper.state = "recording"
           /\ SumLen(engine.recordingChunks) > 0)
              => LET captured == Concat(engine.recordingChunks)
                 IN  /\ looper'.state = "playing"
                     /\ looper'.layerCount = 1
                     /\ looper'.loopDuration = duration(captured)
                     /\ looper'.loopDuration > 0
                     /\ looper'.compositeRef = Some(captured)
                     /\ isPlaying(engine')
                     /\ Len(engine'.playbackSources) = 1
                     /\ engine'.playbackSources[1].buffer = captured
                     /\ engine'.playbackSources[1].gain = 1
                     /\ engine'.playbackSources[1].bufferPos = 0]_vars

C6_Witness ==
    /\ looper.state = "playing"
    /\ looper.layerCount = 1
    /\ looper.loopDuration > 0
    /\ ~IsNull(looper.compositeRef)
    /\ isPlaying(engine)

\* C7: when an overdub completes with a non-empty overdub buffer, the undo
\* buffer becomes the composite as it was, the composite becomes the mix of
\* the old composite and the overdub, layerCount grows by exactly 1, canUndo
\* becomes true and the state becomes playing.
C7_Bounce ==
    [][(looper.state = "overdubbing" /\ looper'.state = "playing"
        /\ SumLen(engine.recordingChunks) > 0)
           => /\ looper'.undoBufferRef = looper.compositeRef
              /\ looper'.compositeRef =
                     Some(mixBuffers(Val(looper.compositeRef),
                                     Concat(engine.recordingChunks)))
              /\ looper'.layerCount = looper.layerCount + 1
              /\ looper'.canUndo]_vars

C7_Witness ==
    /\ looper.state = "playing"
    /\ looper.layerCount = 2
    /\ looper.canUndo
    /\ ~IsNull(looper.undoBufferRef)
    /\ looper.undoBufferRef # looper.compositeRef

\* C8: a hold in state playing with canUndo swaps composite and undo buffer
\* and toggles the undo/redo flag, leaving layerCount and the state as they
\* are; after two consecutive holds composite, undo buffer and flag are
\* what they were before the first.
C8_UndoRedoSwap ==
    [][/\ (Gesture("hold") /\ looper.state = "playing" /\ looper.canUndo)
              => /\ looper'.compositeRef = looper.undoBufferRef
                 /\ looper'.undoBufferRef = looper.compositeRef
                 /\ looper'.undoIsRedo = ~looper.undoIsRedo
                 /\ looper'.layerCount = looper.layerCount
                 /\ looper'.state = "playing"
       /\ hist'.holdRun = 2
              => /\ looper'.compositeRef = hist'.holdPre.composite
                 /\ looper'.undoBufferRef = hist'.holdPre.undo
                 /\ looper'.undoIsRedo = hist'.holdPre.undoIsRedo]_vars

C8_Witness ==
    /\ hist.holdRun = 2
    /\ looper.state = "playing"
    /\ looper.compositeRef # looper.undoBufferRef

\* C9: with the looper playing and canUndo true, one key press held for
\* 1500 ms ends in the undo/redo swap, the looper still playing and no
\* overdub started by the press.
C9_HeldPressSwaps ==
    [][(HoldTimer /\ hist.pressEmit = "tap"
        /\ hist.pressPre.state = "playing" /\ hist.pressPre.canUndo)
           => /\ looper'.state = "playing"
              /\ looper'.compositeRef = hist.pressPre.undo
              /\ looper'.undoBufferRef = hist.pressPre.composite
              /\ ~isRecording(engine')]_vars

\* C10: from every looper state a double-tap-hold, and likewise disabling
\* the looper, ends in state empty with both buffers discarded, layerCount,
\* loopDuration and play-head 0, canUndo false, the auto-stop poll cancelled
\* and the engine neither capturing nor playing.
C10_DeleteResets ==
    [][(Gesture("double-tap-hold") \/ Disable)
           => LoopDeleted(looper', engine')]_vars

\* a delete or disable that found the looper overdubbing
C10_Witness ==
    /\ hist.deletedFrom = "overdubbing"
    /\ LoopDeleted(looper, engine)

\* C11: a press released after exactly 1499 ms has emitted only tap and its
\* hold timer is cancelled; a press held for 1500 ms emits hold and has not
\* emitted tap.
C11_TapOrHold ==
    [][/\ (KeyUp /\ gesture.isDown /\ gesture.heldFor = HOLD_DURATION - 1
           /\ hist.pressEmit = "tap")
              => hist.holdEmit = "none" /\ IsNull(gesture'.holdTimer)
       /\ (HoldTimer /\ Val(gesture.holdTimer).emit = "hold")
              => hist.pressEmit # "tap"]_vars

\* the double-tap window is pending with time left
WindowOpen == ~IsNull(gesture.tapTimer) /\ Val(gesture.tapTimer) > 0

\* C12: every non-repeat key press emits exactly one gesture at press time:
\* double-tap (with the single-tap timer cancelled) if the previous press was
\* a plain tap released less than 300 ms earlier, otherwise tap; a key-down
\* while the key is down emits nothing.
C12_OneGesturePerPress ==
    [][KeyDown =>
          IF gesture.isDown
          THEN UNCHANGED <<engine, looper, hist, gesture>>
          ELSE /\ hist'.pressEmit \in {"tap", "double-tap"}
               /\ (hist.relEmit = "tap" /\ WindowOpen)
                      => hist'.pressEmit = "double-tap"
               /\ (hist.relEmit # "tap" \/ IsNull(gesture.tapTimer))
                      => hist'.pressEmit = "tap"
               /\ hist'.pressEmit = "double-tap"
                      => IsNull(gesture'.tapTimer)]_vars

\* C13: a press within 300 ms of the release of a press that emitted
\* double-tap emits tap, not double-tap.
C13_WindowOnlyAfterPlainTap ==
    [][(KeyDown /\ ~gesture.isDown /\ hist.relEmit = "double-tap" /\ WindowOpen)
           => hist'.pressEmit = "tap"]_vars

\* C14: a release before the hold timer fires cancels the timer, so a hold
\* timer is pending and a hold or double-tap-hold is emitted only while the
\* key is down; a disabled recognizer has no pending timer and emits no
\* gesture.
C14_NoResidualTimers ==
    [][/\ (KeyUp /\ gesture.isDown) => IsNull(gesture'.holdTimer)
       /\ ~gesture'.isDown
              => IsNull(gesture'.holdTimer) /\ hist'.holdEmit = "none"
       /\ ~looper'.enabled
              => /\ IsNull(gesture'.holdTimer) /\ IsNull(gesture'.tapTimer)
                 /\ ~gesture'.isDown /\ ~gesture'.hadRecentTap
       /\ (\/ hist'.pressEmit # hist.pressEmit /\ hist'.pressEmit # "none"
           \/ hist'.holdEmit # hist.holdEmit /\ hist'.holdEmit # "none")
              => looper.enabled /\ looper'.enabled]_vars

\* a press released one millisecond before its hold timer was due
C14_Witness ==
    /\ looper.enabled
    /\ ~gesture.isDown
    /\ gesture.heldFor = HOLD_DURATION - 1
    /\ hist.relEmit = "tap"
    /\ IsNull(gesture.holdTimer)

\* the edges of the looper's state diagram other than those into empty
LooperEdges ==
    { <<"empty", "recording">>, <<"recording", "playing">>,
      <<"playing", "overdubbing">>, <<"overdubbing", "playing">>,
      <<"playing", "stopped">>, <<"overdubbing", "stopped">>,
      <<"stopped", "playing">> }

\* C15: every change of the looper state follows an edge of the state
\* diagram or leads to empty.
C15_OnlyDiagramEdges ==
    [][looper'.state # looper.state
           => \/ <<looper.state, looper'.state>> \in LooperEdges
              \/ looper'.state = "empty"]_vars

\* a loop stopped after an overdub: the looper went through every state
C15_Witness ==
    /\ looper.state = "stopped"
    /\ looper.layerCount = 2
    /\ ~isPlaying(engine) /\ ~isRecording(engine)

ClicksOf(src, run) ==
    {i \in 1..Len(metro.clicks) :
        metro.clicks[i].src = src /\ metro.clicks[i].run = run}

\* C17: beat k of a metronome run started at t0 is scheduled exactly once,
\* for time t0 + k * 60/BPM whenever the scheduler callbacks run, with one
\* beat callback per scheduled beat and the downbeat mark exactly when
\* k mod beatsPerBar = 0; 10 seconds into a run at 120 BPM with 4 beats per
\* bar the beats scheduled for the run are 20, every 4th a downbeat.
C17_BeatGrid ==
    LET run == ClicksOf("metronome", metro.startedAt)
        inRun == {i \in run :
                     metro.clicks[i].time < metro.startedAt + 10000}
    IN  /\ \A i \in 1..Len(metro.clicks) :
               LET c == metro.clicks[i]
               IN  c.src = "metronome" =>
                       /\ c.time = c.run + c.k * msPerBeat(metro)
                       /\ c.isDownbeat = (c.k % metro.metronomeBeatsPerBar = 0)
                       /\ c.beat = c.k % metro.metronomeBeatsPerBar
                       /\ c.beatDown = c.isDownbeat
        /\ \A i, j \in run : metro.clicks[i].k = metro.clicks[j].k => i = j
        /\ metro.metronomeEnabled
               => {metro.clicks[i].k : i \in run}
                      = 0..(metro.metronomeBeatIndex - 1)
        /\ (/\ metro.metronomeEnabled
            /\ metro.metronomeBpm = 120 /\ metro.metronomeBeatsPerBar = 4
            /\ metro.now = metro.startedAt + 10000)
               => /\ Cardinality(inRun) = 20
                  /\ Cardinality({i \in inRun : metro.clicks[i].isDownbeat}) = 5

C17_Witness ==
    /\ metro.metronomeEnabled
    /\ metro.metronomeBpm = 120 /\ metro.metronomeBeatsPerBar = 4
    /\ metro.startedAt > 0
    /\ metro.now = metro.startedAt + 10000
    /\ Len(metro.clicks) >= 20

\* C18: once stopMetronome (stopCountIn) has returned no click of the
\* metronome (the count-in) sounds at a later time.
C18_NoClickAfterCancel ==
    /\ ~metro.metronomeEnabled
           => \A i \in 1..Len(metro.clicks) :
                  (metro.clicks[i].src = "metronome" /\ metro.clicks[i].sounds)
                      => metro.clicks[i].time <= metro.now
    /\ IsNull(metro.countInIntervalId)
           => \A i \in 1..Len(metro.clicks) :
                  (metro.clicks[i].src = "count-in" /\ metro.clicks[i].sounds)
                      => metro.clicks[i].time <= metro.now

\* C19: a count-in started on an engine with an audio context produces
\* exactly beatsPerBar clicks, the first at once and one per beat interval,
\* all of them sounding whatever the audible toggle, and then calls onDone
\* once, after the last click; a count-in cancelled by stopCountIn or by
\* another startCountIn never calls onDone, and stopCountIn changes nothing
\* else.
C19_CountIn ==
    [][/\ \A n \in 1..Len(metro'.done) :
              LET d == metro'.done[n]
                  cs == {i \in 1..Len(metro'.clicks) :
                            /\ metro'.clicks[i].src = "count-in"
                            /\ metro'.clicks[i].run = d.run}
                  first == CHOOSE i \in cs : metro'.clicks[i].k = 0
              IN  d.totalBeats > 0 =>
                      /\ d.totalBeats = metro'.metronomeBeatsPerBar
                      /\ Cardinality(cs) = d.totalBeats
                      /\ {metro'.clicks[i].k : i \in cs} = 0..(d.totalBeats - 1)
                      /\ \A i \in cs :
                             LET c == metro'.clicks[i]
                                 due == metro'.clicks[first].time
                                            + c.k * msPerBeat(metro')
                             IN  /\ c.sounds
                                 /\ c.time >= due
                                 /\ c.time <= due + MaxLate * checkInterval
                                 /\ c.time < d.at
       /\ \A n1, n2 \in 1..Len(metro'.done) :
              metro'.done[n1].run = metro'.done[n2].run => n1 = n2
       /\ \A n \in 1..Len(metro'.done) :
              metro'.done[n].run \notin metro'.cancelled
       /\ StopCountIn
              => /\ engine' = engine
                 /\ metro' = [metro EXCEPT !.countInIntervalId = Null,
                                           !.cancelled = metro'.cancelled]]_vars

\* the first count-in was cancelled by the second, which completed with the
\* audible toggle off
C19_Witness ==
    /\ ~metro.metronomeAudible
    /\ metro.cancelled = {1}
    /\ Len(metro.done) = 1
    /\ metro.done[1].run = 2
    /\ metro.done[1].totalBeats > 0

\* the tracks a playAll call lets sound: positions in the list of the passed
\* tracks that have a buffer
AudibleSet(passed) ==
    LET ts == WithBuffer(passed)
        anySolo == \E i \in 1..Len(passed) : passed[i].solo
    IN  {i \in 1..Len(ts) : IF anySolo THEN ts[i].solo ELSE ~ts[i].muted}

\* C20: the audible set of a playAll call is fixed at call time: while its
\* sources play, exactly the soloed tracks (if any passed track is soloed) or
\* else exactly the unmuted tracks have a non-zero gain, whatever happens
\* between that call and the next playAll.
C20_AudibleSetFixed ==
    engine.isCurrentlyPlaying
        => /\ Len(engine.playbackSources)
                  = Len(WithBuffer(engine.lastPlayTracks))
           /\ \A i \in 1..Len(engine.playbackSources) :
                  engine.playbackSources[i].gain # 0
                      <=> i \in AudibleSet(engine.lastPlayTracks)

\* C21: on an engine with an audio context seekTo(t) returns t clamped to
\* [0, loopDuration], or to [0, infinity) when no loop is defined. If the
\* engine is stopped (neither playing nor recording), getCurrentTime() right
\* afterwards is the returned value and nothing starts playing. If it is
\* playing, it remains playing, and the tracks of the last playAll call are
\* restarted from the returned offset.
C21_SeekTo ==
    [][\A t \in SeekTimes :
           (SeekTo(t) /\ engine.context) =>
               LET ret == lastCall'.num
                   idle == ~engine.isCurrentlyPlaying
                               /\ ~engine.isCurrentlyRecording
               IN  /\ ret >= 0
                   /\ IF engine.loopDuration > 0
                      THEN /\ ret <= engine.loopDuration
                           /\ (t \in 0..engine.loopDuration => ret = t)
                           /\ (t > engine.loopDuration
                                   => ret = engine.loopDuration)
                      ELSE t >= 0 => ret = t
                   /\ t < 0 => ret = 0
                   /\ idle => /\ getCurrentTime(engine') = ret
                              /\ ~engine'.isCurrentlyPlaying
                              /\ engine'.playbackSources
                                     = engine.playbackSources
                   /\ engine.isCurrentlyPlaying =>
                          /\ engine'.isCurrentlyPlaying
                          /\ engine'.playStartOffset = ret
                          /\ engine'.playStartTime = engine.currentTime
                          /\ engine'.lastPlayTracks = engine.lastPlayTracks
                          /\ engine'.lastPlayLoop = engine.lastPlayLoop
                          /\ Len(engine.lastPlayTracks) > 0 =>
                                 LET ts == WithBuffer(engine.lastPlayTracks)
                                 IN  /\ Len(engine'.playbackSources) = Len(ts)
                                     /\ \A i \in 1..Len(ts) :
                                            /\ engine'.playbackSources[i].loop
                                                   = engine.lastPlayLoop
                                            /\ engine'.playbackSources[i].bufferPos
                                                   = bufferPos(engine,
                                                               engine'.loopDuration,
                                                               ts[i], ret)]_vars

\* a seek past the loop end while tracks play: clamped, playback restarted
C21_Witness ==
    /\ lastCall.op = "seekTo"
    /\ engine.isCurrentlyPlaying
    /\ Len(engine.playbackSources) > 0
    /\ Len(engine.lastPlayTracks) > 0
    /\ engine.loopDuration \in 1..(MaxSeek - 1)
    /\ lastCall.num = engine.loopDuration

\* minimum and maximum of a non-empty set of numbers
SetMin(S) == CHOOSE v \in S : \A w \in S : v <= w
SetMax(S) == CHOOSE v \in S : \A w \in S : v >= w

\* C25: during a recording, after chunks totalling T samples have been
\* processed, the preview holds ceil(T / samplesPerBin) bins, and the min and
\* max of each bin are the minimum and maximum, together with 0, of exactly
\* the samples whose global index falls in that bin.
C25_PreviewBins ==
    engine.scriptProcessor =>
        LET all == Concat(engine.recordingChunks)
            T == Len(all)
            spb == CurrentProcessor.samplesPerBin
            preview == engine.recordingPreview
        IN  /\ Len(preview) = Ceil(T, spb)
            /\ \A b \in 1..Len(preview) :
                   LET vals == {0} \cup {all[i] : i \in
                                   {j \in 1..T : (j - 1) \div spb = b - 1}}
                   IN  /\ preview[b].min = SetMin(vals)
                       /\ preview[b].max = SetMax(vals)

\* C26: an overdub started at the play-head position p keeps its phase: the
\* overdub sample captured while the loop was at tape position q is mixed
\* into the composite at position q. (Positions in samples; stated for a
\* start on a sample boundary and an overdub no longer than the loop.)
C26_PhaseAligned ==
    [][(/\ looper.state = "overdubbing"
        /\ looper'.state = "playing"
        /\ looper'.layerCount = looper.layerCount + 1)
           => LET overdub == Concat(engine.recordingChunks)
                  p == engine.playStartOffset
                  before == Val(looper.compositeRef)
                  after == Val(looper'.compositeRef)
                  L == Len(before)
              IN  (p % TicksPerSample = 0 /\ Len(overdub) <= L)
                      => \A k \in 1..Len(overdub) :
                             LET q == (((p \div TicksPerSample) + k - 1) % L) + 1
                             IN  after[q] = before[q] + overdub[k]]_vars

\* C27: once a note is displayed, the displayed note changes to another note
\* Y only in a frame that ends a run of NOTE_HOLD_FRAMES consecutive frames
\* that all detected Y; a frame that detects another note, the displayed
\* note or no pitch ends the run.
C27_Hysteresis ==
    [][(/\ ~IsNull(tuner.noteInfo)
        /\ ~IsNull(tuner'.noteInfo)
        /\ Val(tuner'.noteInfo).note # Val(tuner.noteInfo).note)
           => tuner'.run = [note |-> Some(Val(tuner'.noteInfo).note),
                            len |-> NOTE_HOLD_FRAMES]]_vars

\* C28: after more than NoDetectionLimit consecutive frames without a
\* detection the display is cleared (no note, not detecting, cents 0, the
\* hysteresis state reset); after that many or fewer, the note displayed
\* before them is still displayed.
C28_SilenceClears ==
    /\ tuner.quiet > NoDetectionLimit
           => /\ IsNull(tuner.noteInfo)
              /\ ~tuner.isDetecting
              /\ tuner.smoothedCents = 0
              /\ IsNull(tuner.currentNoteRef)
              /\ IsNull(tuner.candidateNoteRef)
              /\ tuner.candidateCountRef = 0
    /\ tuner.quiet \in 1..NoDetectionLimit => tuner.noteInfo = tuner.shown

C28_Witness ==
    /\ tuner.quiet = NoDetectionLimit + 1
    /\ ~IsNull(tuner.shown)
    /\ IsNull(tuner.noteInfo)

\* the MIDI-number distance of the detected note of the last call to
\* string j (1-based) of its tuning
StringDistance(j) ==
    Abs(Val(noteToMidi(Val(closest.detectedNote)))
            - Val(noteToMidi(closest.strings[j])))

\* C29: findClosestString returns a string at the minimum MIDI-number
\* distance from the detected note, the lowest-index one on ties, and null
\* for a tuning without strings.
C29_ClosestString ==
    ~IsNull(closest.detectedNote)
        => IF Len(closest.strings) = 0 THEN IsNull(closest.ret)
           ELSE /\ ~IsNull(closest.ret)
                /\ LET k == Val(closest.ret).stringIndex + 1
                   IN  /\ k \in 1..Len(closest.strings)
                       /\ Val(closest.ret).stringNote = closest.strings[k]
                       /\ \A j \in 1..Len(closest.strings) :
                              StringDistance(k) <= StringDistance(j)
                       /\ \A j \in 1..(k - 1) :
                              StringDistance(j) > StringDistance(k)

C29_Witness ==
    /\ ~IsNull(closest.ret)
    /\ \E j \in 1..Len(closest.strings) :
           /\ j > Val(closest.ret).stringIndex + 1
           /\ StringDistance(j) = StringDistance(Val(closest.ret).stringIndex + 1)

\* C22: whatever the sequence of armTrack, startRecording, stopRecording,
\* clearTrack, clearAll, loadSessionById and newSession, exactly one track
\* has isArmed = true.
C22_OneArmed ==
    Cardinality({i \in 1..Len(tracksRef) : tracksRef[i].isArmed}) = 1

C22_Witness ==
    /\ hook.loopDuration > 0
    /\ ~tracksRef[1].isArmed
    /\ tracksRef[2].isArmed
    /\ ~IsNull(tracksRef[2].audioBuffer)
    /\ lastCall.op = "stopRecording"

\* a step in which a recording of the hook completes
RecordingCompletes ==
    /\ lastCall'.op = "stopRecording"
    /\ \E i \in 1..Len(tracksRef) :
           tracksRef[i].isRecording /\ ~tracksRef'[i].isRecording

\* a step that clears tracks, loads a session or starts a new one
ClearsOrLoads ==
    \/ \E id \in TrackIds : ClearTrack(id)
    \/ ClearAll
    \/ \E session \in Sessions : LoadSessionById(session)
    \/ NewSession

C24_EmptyRecording ==
    [][/\ ((HookStopRecording \/ \E x \in hook.intervals : HookAutoStopPoll(x))
               /\ Len(engine.recordingChunks) = 0)
              => /\ IsNull(lastCall'.buf)
                 /\ \A i \in 1..Len(tracksRef) :
                        tracksRef'[i].audioBuffer = tracksRef[i].audioBuffer
                 /\ hook'.loopDuration = hook.loopDuration
       /\ (Gesture("tap") /\ looper.state = "recording"
               /\ Len(engine.recordingChunks) = 0)
              => /\ looper'.state = "empty"
                 /\ looper'.layerCount = 0
                 /\ looper'.loopDuration = 0
                 /\ IsNull(looper'.compositeRef)
       /\ (Gesture("tap") /\ looper.state = "overdubbing"
               /\ Len(engine.recordingChunks) = 0)
              => /\ looper'.state = "playing"
                 /\ looper'.compositeRef = looper.compositeRef
                 /\ looper'.undoBufferRef = looper.undoBufferRef
                 /\ looper'.layerCount = looper.layerCount
                 /\ looper'.canUndo = looper.canUndo]_vars

C24_Witness ==
    /\ lastCall.op = "stopRecording"
    /\ IsNull(lastCall.buf)
    /\ hook.loopDuration > 0
    /\ \A i \in 1..Len(tracksRef) :
           ~IsNull(tracksRef[i].audioBuffer) /\ ~tracksRef[i].isRecording

\* C30: for the same track list exportMix renders exactly the tracks playAll
\* makes audible (the soloed tracks if any is soloed, else the unmuted ones),
\* into a buffer of exactly the samples of the requested duration.
C30_ExportMix ==
    (engine.context /\ ~IsNull(hook.mixedBuffer))
        => LET x == Val(hook.mixedBuffer)
               played == playAll(engine, x.tracks, TRUE, 0).playbackSources
           IN  /\ Len(played) = Len(x.tracks)
               /\ x.mix.rendered = {i \in 1..Len(x.tracks) : played[i].gain > 0}
               /\ x.mix.length * TicksPerSample >= x.duration
               /\ (x.mix.length - 1) * TicksPerSample < x.duration

C30_Witness ==
    /\ engine.context
    /\ ~IsNull(hook.mixedBuffer)
    /\ Len(Val(hook.mixedBuffer).tracks) = 2
    /\ Val(hook.mixedBuffer).tracks[2].solo
    /\ ~Val(hook.mixedBuffer).tracks[2].muted
    /\ Val(hook.mixedBuffer).mix.rendered = {2}


\* the looper states in which a loop has been recorded
HasLoop == looper.state \in {"playing", "overdubbing", "stopped"}

\* C35: in every reachable looper state the composite buffer exists exactly
\* in the states playing, overdubbing and stopped; layerCount >= 1 and
\* loopDuration > 0 exactly in those states and both are 0 in empty and
\* recording; canUndo is true exactly when an undo buffer exists
C35_LooperShape ==
    /\ ~IsNull(looper.compositeRef) <=> HasLoop
    /\ looper.layerCount >= 1 <=> HasLoop
    /\ looper.loopDuration > 0 <=> HasLoop
    /\ ~HasLoop => looper.layerCount = 0 /\ looper.loopDuration = 0
    /\ looper.canUndo <=> ~IsNull(looper.undoBufferRef)

C35_Witness ==
    /\ looper.state = "stopped"
    /\ looper.layerCount = 2
    /\ looper.canUndo
    /\ looper.undoIsRedo

\* C36: the auto-stop poll is pending only while the state is overdubbing,
\* at most one poll is pending, and a completion adds exactly one layer,
\* ends in playing and leaves no poll behind that could complete it again
C36_OnePoll ==
    [][/\ looper'.polls <= 1
       /\ looper'.polls > 0 => looper'.state = "overdubbing"
       /\ looper'.layerCount > looper.layerCount =>
              /\ looper'.layerCount = looper.layerCount + 1
              /\ looper.state \in {"recording", "overdubbing"}
              /\ looper'.state = "playing"
              /\ looper'.polls = 0]_vars

C36_Witness ==
    /\ looper.state = "playing"
    /\ looper.layerCount = 2
    /\ looper.polls = 0
    /\ ~looper.autoStopRef

\* C38: at most one capture processor is connected at any time, and none
\* is connected once the looper is outside recording and overdubbing
C38_OneProcessor ==
    /\ Len(engine.processors) <= 1
    /\ looper.state \notin {"recording", "overdubbing"} =>
           Len(engine.processors) = 0

C38_Witness ==
    /\ looper.state = "empty"
    /\ hist.deletedFrom \in {"recording", "overdubbing"}
    /\ Len(engine.processors) = 0
    /\ ~isRecording(engine)


\* C37: an overdub whose capture has reached the loop boundary is completed
\* by the auto-stop poll: the looper returns to playing with the overdub
\* bounced into the composite and layerCount incremented
C37_BoundaryCompletes ==
    [][(/\ AutoStopPoll
        /\ looper.state = "overdubbing"
        /\ ~IsNull(looper.compositeRef)
        /\ SumLen(engine.recordingChunks)
               >= Ceil(looper.loopDurationRef, TicksPerSample))
       => /\ looper'.state = "playing"
          /\ looper'.layerCount = looper.layerCount + 1
          /\ looper'.undoBufferRef = looper.compositeRef]_vars


\* the playback source that plays the track trackId: its position among the
\* tracks with audio (0 if the track has none)
SourceOf(trackId) ==
    IF \E j \in 1..Len(tracksRef) :
           tracksRef[j].id = trackId /\ ~IsNull(tracksRef[j].audioBuffer)
    THEN Cardinality({j \in 1..Len(tracksRef) :
                         /\ tracksRef[j].id <= trackId
                         /\ ~IsNull(tracksRef[j].audioBuffer)})
    ELSE 0

\* C39: during playback setVolume(trackId, v) changes the gain of the
\* source playing track trackId and of no other source, and a source that
\* mute or solo silenced at the playAll call stays silent
C39_SetVolumeFrame ==
    [][\A id \in TrackIds, v \in Volumes :
           (SetVolume(id, v) /\ engine.isCurrentlyPlaying) =>
               /\ Len(engine'.playbackSources) = Len(engine.playbackSources)
               /\ \A i \in 1..Len(engine.playbackSources) :
                      engine'.playbackSources[i].gain =
                          IF /\ i = SourceOf(id)
                             /\ i \in AudibleSet(engine.lastPlayTracks)
                          THEN v
                          ELSE engine.playbackSources[i].gain]_vars


\* C34: when loadSessionById or newSession has run, nothing is active: the
\* engine neither plays nor captures, no auto-stop poll and no count-in is
\* pending, and the hook's isRecording agrees with the engine's
C34_SessionStopsAll ==
    [][(NewSession \/ \E s \in Sessions : LoadSessionById(s)) =>
           /\ ~engine'.isCurrentlyPlaying
           /\ ~engine'.isCurrentlyRecording
           /\ hook'.intervals = {}
           /\ ~hook'.countInPending
           /\ ~hook'.isCountingIn
           /\ hook'.isRecording = engine'.isCurrentlyRecording]_vars


\* C40: in the multitrack view, also after the looper was switched on and
\* off again, the time updates of a playing or recording engine reach the
\* hook: the callback its animation frame calls is the hook's setCurrentTime
C40_TransportTime ==
    (/\ ~looper.enabled
     /\ engine.animFrameId
     /\ engine.isCurrentlyPlaying \/ engine.isCurrentlyRecording)
        => engine.onTimeUpdate = "hook"


\* C33: when an overdub (a recording made while a loop exists) of at most
\* the loop's length completes, by the auto-stop poll or by a manual stop,
\* the k-th captured sample, taken at tape position start + k (wrapping at
\* the loop's end), is stored at that index of the track's buffer
C33_TapeAligned ==
    [][(HookStopRecording \/ \E x \in hook.intervals : HookAutoStopPoll(x)) =>
           LET raw == lastCall'.buf
               L == hook.loopDuration \div TicksPerSample
               start == Round(hook.recordingStartPosRef, TicksPerSample)
           IN  (hook.loopDuration > 0 /\ ~IsNull(raw) /\ Len(Val(raw)) <= L) =>
                   \A i \in 1..Len(tracksRef) :
                       tracksRef[i].isRecording =>
                           /\ ~IsNull(tracksRef'[i].audioBuffer)
                           /\ \A k \in 1..Len(Val(raw)) :
                                  LET j == ((start + k - 1) % L) + 1
                                  IN  /\ j <= Len(Val(tracksRef'[i].audioBuffer))
                                      /\ Val(tracksRef'[i].audioBuffer)[j]
                                             = Val(raw)[k]]_vars


\* C31: the buffer made by createBufferFromData from serializeBuffer(b),
\* at b's sample rate, has b's number of channels, b's length and b's
\* sample values in every channel
C31_RoundTrip ==
    ~IsNull(codec.data) /\ ~IsNull(codec.restored) =>
        LET b == Val(codec.buffer)
            r == Val(codec.restored)
        IN  /\ r.numberOfChannels = b.numberOfChannels
            /\ r.length = b.length
            /\ r.sampleRate = b.sampleRate
            /\ \A ch \in 1..b.numberOfChannels :
                   /\ Len(r.channels[ch]) = b.length
                   /\ \A i \in 1..b.length :
                          r.channels[ch][i] = b.channels[ch][i]

C31_Witness ==
    /\ ~IsNull(codec.restored)
    /\ Val(codec.buffer).numberOfChannels = 2
    /\ Val(codec.buffer).length = 2
    /\ Val(codec.buffer).channels[2] = <<-1, 1>>
    /\ Val(codec.data)[2] = <<-NumbersPerFloat, NumbersPerFloat>>

====
